---------------------------- MODULE Spec2Model ----------------------------
(***************************************************************************)
(* The storage engine of theheadmen/urlShort: the FileStorage engine (used *)
(* with and without file persistence), the DatabaseStorage engine over the *)
(* urls / last_user_id tables, and the places of the HTTP and gRPC         *)
(* adapters that allocate owner identities.                                *)
(*                                                                         *)
(* One behaviour is one deployment: Init picks the backend, every action   *)
(* is one completed call of an engine method (or of an adapter step that   *)
(* calls the engine), Restart constructs a new engine instance over the    *)
(* same log file or the same database.  The file and the database answer   *)
(* every call in Spec; the only database error that arises is the one the  *)
(* schema itself produces (the UNIQUE(originalURL, userID) constraint).    *)
(***************************************************************************)
EXTENDS Integers, Sequences, FiniteSets, TLC

(***************************************************************************)
(* Bounds of the model.                                                    *)
(***************************************************************************)
MaxOwner == 2
\* owners that call the engine are 1..MaxOwner
MaxUserID == 3
\* allocation stops when the counter reaches MaxUserID
MaxLog == 3
\* no call is made that would make the log longer than MaxLog lines
MaxSerial == 3
\* no insert is attempted that would draw a urls.id beyond MaxSerial
MaxBatch == 2
\* longest batch handed to StoreURLBatch
MaxCodes == 2
\* longest code list handed to DeleteByUserID
MaxKeys == 3
\* no call is made that would make URLMap hold more than MaxKeys entries

Owners == 1..MaxOwner
URLs == {"u1", "u2"}

\* The short code of a URL: the first 8 characters of the base64 of its
\* SHA-256.  The model keeps what the engine depends on: the code is a
\* function of the URL alone.
GenerateShortURL(url) ==
    CASE url = "u1" -> "c1"
      [] OTHER -> "c2"

Codes == {GenerateShortURL(u) : u \in URLs}

SeqsUpTo(S, n) == UNION {[1..k -> S] : k \in 1..n}

(***************************************************************************)
(* models.SavedURL, its zero value, and its JSON line in the log.          *)
(***************************************************************************)
SavedURL(uuid, shortURL, originalURL, userID, deleted) ==
    [UUID |-> uuid, ShortURL |-> shortURL, OriginalURL |-> originalURL,
     UserID |-> userID, Deleted |-> deleted]

ZeroSavedURL == SavedURL(0, "", "", 0, FALSE)

\* json.Marshal of a SavedURL: the object with the struct's json tags.
Marshal(savedURL) ==
    [uuid |-> savedURL.UUID, short_url |-> savedURL.ShortURL,
     original_url |-> savedURL.OriginalURL, user_id |-> savedURL.UserID,
     deleted |-> savedURL.Deleted]

\* A line of the log that is not JSON (a torn or foreign line).
BadLine == [garbage |-> TRUE]

\* json.Unmarshal of a line into a SavedURL.  On a line that is not JSON it
\* returns an error and leaves the target at its zero value.
Unmarshal(line) ==
    IF line = BadLine
    THEN ZeroSavedURL
    ELSE SavedURL(line.uuid, line.short_url, line.original_url, line.user_id,
                  line.deleted)

(***************************************************************************)
(* Go maps keyed by storage.URLMapKey{ShortURL, UserID}.                   *)
(***************************************************************************)
URLMapKey(shortURL, userID) == <<shortURL, userID>>

EmptyMap == [k \in {} |-> ZeroSavedURL]

MapPut(map, key, value) ==
    [k \in (DOMAIN map) \cup {key} |-> IF k = key THEN value ELSE map[k]]

VARIABLES
    backend,       \* "memory" | "file" | "db": the engine type and isWithFile
    URLMap,        \* FileStorage.URLMap
    lastUserID,    \* FileStorage.lastUserID / DatabaseStorage.lastUserID
    usedUserIDs,   \* FileStorage.usedUserIDs / DatabaseStorage.usedUserIDs
    file,          \* the lines of the log at filePath
    urls,          \* the rows of table urls, in storage order
    urls_id_seq,   \* the last value drawn from the SERIAL of urls.id
    last_user_id,  \* the single row of table last_user_id
    last,          \* what the last completed call returned, when it was a
                   \* StoreURL
    stored,        \* history: <<code, url, owner, op>> of every entry a store
                   \* call created
    issued,        \* history: the values GetLastUserID returned, in order,
                   \* on the current engine instance
    goroutines,    \* the deletions deleteByUserIDHandler has started with
                   \* "go func()" and that have not returned yet
    completed,     \* history: the started deletions that have returned
    calls          \* the engine calls in flight, one per concurrent caller:
                   \* where the call stands in the method and its locals

vars == <<backend, URLMap, lastUserID, usedUserIDs, file, urls, urls_id_seq,
          last_user_id, last, stored, issued, goroutines, completed,
          calls>>

isWithFile == backend = "file"
isFileStorage == backend \in {"memory", "file"}

(***************************************************************************)
(* last is what the last completed call returned.  op is "StoreURL", a    *)
(* request over a transport ("deleteByUserIDHandler", "DeleteURLs", ...)   *)
(* or "other" for the calls that return an error only; ok is StoreURL's    *)
(* first result (the key was already there) or, for a delete request, that *)
(* it was acknowledged; err says that the error returned was not nil.      *)
(***************************************************************************)
NoCall == [op |-> "other", ok |-> FALSE, err |-> FALSE]

(***************************************************************************)
(* FileStorage                                                             *)
(***************************************************************************)

\* A faulty GetURL: the lookup key leaves the owner at its zero value.
FileGetURL_ZeroOwner(map, shortURL, userID) ==
    IF URLMapKey(shortURL, 0) \in DOMAIN map
    THEN [url |-> map[URLMapKey(shortURL, 0)].OriginalURL, ok |-> TRUE]
    ELSE [url |-> "", ok |-> FALSE]

\* GetURL: (OriginalURL, ok) of the map entry under (shortURL, userID).
FileGetURL(map, shortURL, userID) ==
    IF URLMapKey(shortURL, userID) \in DOMAIN map
    THEN [url |-> map[URLMapKey(shortURL, userID)].OriginalURL, ok |-> TRUE]
    ELSE [url |-> "", ok |-> FALSE]

\* findEntityByShortURL ranges over the map and returns the first entry whose
\* key has the code: Go's map iteration order is unspecified, so every such
\* entry is a possible result.  The set is empty when there is none.
findEntityByShortURL(map, shortURL) ==
    {map[k] : k \in {x \in DOMAIN map : x[1] = shortURL}}

\* A faulty findUserID: only the first element of the slice is looked at.
findUserID_FirstOnly(used, userID) ==
    Len(used) > 0 /\ used[1] = userID

\* findUserID: membership in the usedUserIDs slice.
findUserID(used, userID) ==
    \E i \in 1..Len(used) : used[i] = userID

\* A faulty Save: a record whose key and deleted flag the log already holds
\* is not appended again.
Save_Dedup(lines, savedURL) ==
    IF \E i \in 1..Len(lines) :
         /\ Unmarshal(lines[i]).ShortURL = savedURL.ShortURL
         /\ Unmarshal(lines[i]).UserID = savedURL.UserID
         /\ Unmarshal(lines[i]).Deleted = savedURL.Deleted
    THEN lines
    ELSE Append(lines, Marshal(savedURL))

\* Save: one JSON line appended to the log.
Save(lines, savedURL) == Append(lines, Marshal(savedURL))

RECURSIVE SaveAll(_, _)
SaveAll(lines, savedURLs) ==
    IF savedURLs = <<>> THEN lines
    ELSE SaveAll(Save(lines, Head(savedURLs)), Tail(savedURLs))

\* ReadAllData: every line is unmarshalled and put under the key made of ITS
\* OWN short_url and user_id; its user_id is appended to usedUserIDs and
\* raises curMax.  st is [URLMap, usedUserIDs, lastUserID].
RECURSIVE ReadAllData(_, _)
ReadAllData(st, lines) ==
    IF lines = <<>> THEN st
    ELSE LET result == Unmarshal(Head(lines))
         IN ReadAllData(
              [URLMap |-> MapPut(st.URLMap,
                                 URLMapKey(result.ShortURL, result.UserID),
                                 result),
               usedUserIDs |-> Append(st.usedUserIDs, result.UserID),
               lastUserID |-> IF result.UserID > st.lastUserID
                              THEN result.UserID ELSE st.lastUserID],
              Tail(lines))

\* A faulty NewFileStorage: curMax is not stored back into lastUserID.
NewFileStorage_CounterNotSeeded(lines) ==
    [ReadAllData([URLMap |-> EmptyMap, usedUserIDs |-> <<>>,
                  lastUserID |-> 0], lines) EXCEPT !.lastUserID = 0]

\* NewFileStorage: an empty engine, then ReadAllData over the log.
NewFileStorage(lines) ==
    ReadAllData([URLMap |-> EmptyMap, usedUserIDs |-> <<>>, lastUserID |-> 0],
                lines)

\* ReadAllDataForUserID reads the FILE, not the map: every line whose user_id
\* is userID, in file order.  os.Open fails while the file does not exist.
RECURSIVE FileReadAllDataForUserID(_, _)
FileReadAllDataForUserID(lines, userID) ==
    IF lines = <<>> THEN <<>>
    ELSE LET result == Unmarshal(Head(lines))
             rest == FileReadAllDataForUserID(Tail(lines), userID)
         IN IF result.UserID = userID THEN <<result>> \o rest ELSE rest

\* The first loop of StoreURLBatch: st is [URLMap, filteredStore].  An entry
\* is put into the map AS IT CAME (its own UserID field), under the key of
\* the caller's userID.
RECURSIVE FileFilterBatch(_, _, _)
FileFilterBatch(st, forStore, userID) ==
    IF forStore = <<>> THEN st
    ELSE LET savedURL == Head(forStore)
         IN IF FileGetURL(st.URLMap, savedURL.ShortURL, userID).ok
            THEN FileFilterBatch(st, Tail(forStore), userID)
            ELSE FileFilterBatch(
                   [URLMap |-> MapPut(st.URLMap,
                                      URLMapKey(savedURL.ShortURL, userID),
                                      savedURL),
                    filteredStore |-> Append(st.filteredStore, savedURL)],
                   Tail(forStore), userID)

\* The first loop of DeleteByUserID: for each code, ANY entry with that code
\* (whoever owns it) is copied, marked deleted, and put under the key of the
\* caller's userID.  The result is the set of maps the loop can leave.
RECURSIVE FileMarkDeleted(_, _, _)
FileMarkDeleted(map, shortURLs, userID) ==
    IF shortURLs = <<>> THEN {map}
    ELSE LET shortURL == Head(shortURLs)
             found == findEntityByShortURL(map, shortURL)
         IN IF found = {}
            THEN FileMarkDeleted(map, Tail(shortURLs), userID)
            ELSE UNION {FileMarkDeleted(
                          MapPut(map, URLMapKey(shortURL, userID),
                                 [originalSavedURL EXCEPT !.Deleted = TRUE]),
                          Tail(shortURLs), userID)
                        : originalSavedURL \in found}

\* The second loop of DeleteByUserID: the entries now under (code, userID),
\* one per listed code, in list order.
RECURSIVE FileDeletedToSave(_, _, _)
FileDeletedToSave(map, shortURLs, userID) ==
    IF shortURLs = <<>> THEN <<>>
    ELSE LET key == URLMapKey(Head(shortURLs), userID)
             rest == FileDeletedToSave(map, Tail(shortURLs), userID)
         IN IF key \in DOMAIN map THEN <<map[key]>> \o rest ELSE rest

(***************************************************************************)
(* DBConnector: the tables and the statements run on them.                 *)
(***************************************************************************)

\* A row of urls as rows.Scan reads it into a SavedURL.
ScanRow(row) ==
    SavedURL(row.id, row.shortURL, row.originalURL, row.userID, row.deleted)

\* The rows a SELECT ... WHERE returns; no statement has an ORDER BY, so the
\* result is the set of matching rows and its first row is any of them.
SelectSavedURLsForShortURLAndUserID(rows, shortURL, userID) ==
    {rows[i] : i \in {j \in 1..Len(rows) :
                        rows[j].shortURL = shortURL /\ rows[j].userID = userID}}

SelectSavedURLsForShortURL(rows, shortURL) ==
    {rows[i] : i \in {j \in 1..Len(rows) : rows[j].shortURL = shortURL}}

\* SelectSavedURLsForUserID, listed here in storage order.
SelectSavedURLsForUserID(rows, userID) ==
    SelectSeq(rows, LAMBDA r : r.userID = userID)

\* A table without the constraint: no INSERT is refused.
ViolatesUnique_Never(rows, originalURL, userID) == FALSE

\* UNIQUE(originalURL, userID)
ViolatesUnique(rows, originalURL, userID) ==
    \E i \in 1..Len(rows) :
        rows[i].originalURL = originalURL /\ rows[i].userID = userID

\* InsertSavedURLBatch: one transaction; every INSERT draws the next id and
\* writes the CALLER's userID; the first INSERT that violates the constraint
\* rolls the transaction back (the ids drawn stay drawn).
\* tx is [rows, seq, err]; the result is [urls, urls_id_seq, err].
RECURSIVE InsertEach(_, _, _)
InsertEach(tx, savedURLs, userID) ==
    IF savedURLs = <<>> \/ tx.err THEN tx
    ELSE LET savedURL == Head(savedURLs)
             id == tx.seq + 1
         IN IF ViolatesUnique(tx.rows, savedURL.OriginalURL, userID)
            THEN [rows |-> tx.rows, seq |-> id, err |-> TRUE]
            ELSE InsertEach(
                   [rows |-> Append(tx.rows,
                                    [id |-> id,
                                     shortURL |-> savedURL.ShortURL,
                                     originalURL |-> savedURL.OriginalURL,
                                     userID |-> userID,
                                     deleted |-> FALSE]),
                    seq |-> id, err |-> FALSE],
                   Tail(savedURLs), userID)

\* A faulty InsertSavedURLBatch: a failed INSERT ends the loop and the rows
\* inserted before it stay.
InsertSavedURLBatch_NoRollback(rows, seq, savedURLs, userID) ==
    LET tx == InsertEach([rows |-> rows, seq |-> seq, err |-> FALSE],
                         savedURLs, userID)
    IN [urls |-> tx.rows, urls_id_seq |-> tx.seq, err |-> tx.err]

InsertSavedURLBatch(rows, seq, savedURLs, userID) ==
    LET tx == InsertEach([rows |-> rows, seq |-> seq, err |-> FALSE],
                         savedURLs, userID)
    IN [urls |-> IF tx.err THEN rows ELSE tx.rows,
        urls_id_seq |-> tx.seq,
        err |-> tx.err]

\* A faulty UpdateDeletedSavedURLBatch: the rows are removed (DELETE FROM
\* urls WHERE ...) instead of marked.
UpdateDeletedSavedURLBatch_Remove(rows, shortURLs, userID) ==
    SelectSeq(rows, LAMBDA row :
        ~(/\ \E j \in 1..Len(shortURLs) : shortURLs[j] = row.shortURL
          /\ row.userID = userID))

\* UpdateDeletedSavedURLBatch:
\* UPDATE urls SET deleted = TRUE WHERE shortURL = ANY($1) AND userID = $2
UpdateDeletedSavedURLBatch(rows, shortURLs, userID) ==
    [i \in 1..Len(rows) |->
        IF /\ \E j \in 1..Len(shortURLs) : shortURLs[j] = rows[i].shortURL
           /\ rows[i].userID = userID
        THEN [rows[i] EXCEPT !.deleted = TRUE]
        ELSE rows[i]]

\* IncrementID: UPDATE last_user_id SET id = id + 1 RETURNING id
IncrementID(id) == id + 1

(***************************************************************************)
(* DatabaseStorage                                                         *)
(***************************************************************************)

\* GetURL: found iff the SELECT returns a row; the URL is that of
\* savedURLs[0], any of the rows returned.
DBGetURL(rows, shortURL, userID) ==
    LET savedURLs == SelectSavedURLsForShortURLAndUserID(rows, shortURL, userID)
    IN [urls |-> {r.originalURL : r \in savedURLs}, ok |-> savedURLs # {}]

\* The loop of StoreURLBatch: the entries GetURL does not find, in order.
\* Nothing is written until the loop has ended.
RECURSIVE DBFilterBatch(_, _, _)
DBFilterBatch(rows, forStore, userID) ==
    IF forStore = <<>> THEN <<>>
    ELSE LET savedURL == Head(forStore)
             rest == DBFilterBatch(rows, Tail(forStore), userID)
         IN IF DBGetURL(rows, savedURL.ShortURL, userID).ok
            THEN rest ELSE <<savedURL>> \o rest

\* ReadAllData of NewDatabaseStorage: the userID of every row is appended to
\* usedUserIDs.
RECURSIVE DBReadAllData(_, _)
DBReadAllData(used, rows) ==
    IF rows = <<>> THEN used
    ELSE DBReadAllData(Append(used, Head(rows).userID), Tail(rows))

(***************************************************************************)
(* The read-only calls of the current engine.  A call whose result depends *)
(* on an unspecified order is the set of the results it can return.        *)
(***************************************************************************)
GetURL(shortURL, userID) ==
    IF isFileStorage
    THEN {FileGetURL(URLMap, shortURL, userID)}
    ELSE IF DBGetURL(urls, shortURL, userID).ok
         THEN {[url |-> u, ok |-> TRUE] :
                 u \in DBGetURL(urls, shortURL, userID).urls}
         ELSE {[url |-> "", ok |-> FALSE]}

\* What is stored under a key: the set of original URLs (the index holds at
\* most one; the table may hold several rows).
KeyURLs(shortURL, userID) ==
    {got.url : got \in {g \in GetURL(shortURL, userID) : g.ok}}

GetURLForAnyUserID(shortURL) ==
    LET found == IF isFileStorage
                 THEN findEntityByShortURL(URLMap, shortURL)
                 ELSE {ScanRow(r) :
                         r \in SelectSavedURLsForShortURL(urls, shortURL)}
    IN IF found = {}
       THEN {[rec |-> ZeroSavedURL, ok |-> FALSE]}
       ELSE {[rec |-> r, ok |-> TRUE] : r \in found}

ReadAllDataForUserID(userID) ==
    IF isFileStorage
    THEN [list |-> FileReadAllDataForUserID(file, userID), err |-> file = <<>>]
    ELSE [list |-> [i \in 1..Len(SelectSavedURLsForUserID(urls, userID)) |->
                      ScanRow(SelectSavedURLsForUserID(urls, userID)[i])],
          err |-> FALSE]

\* A faulty IsItCorrectUserID: every id is taken as known.
IsItCorrectUserID_Any(userID) == TRUE

IsItCorrectUserID(userID) == findUserID(usedUserIDs, userID)

\* The batch postBatchJSONHandler builds from the request's URLs: UUID and
\* UserID are left at their zero values.
BatchOf(originalURLs) ==
    [i \in 1..Len(originalURLs) |->
        SavedURL(0, GenerateShortURL(originalURLs[i]), originalURLs[i], 0,
                 FALSE)]

\* History: the entries a store call created, as <<code, url, owner, op>>.
Created(savedURLs, userID, op) ==
    {<<savedURLs[i].ShortURL, savedURLs[i].OriginalURL, userID, op>> :
        i \in 1..Len(savedURLs)}

StoreURLCall(ok, err) == [op |-> "StoreURL", ok |-> ok, err |-> err]

\* StoreURLBatch returns an error only.
StoreURLBatchCall(err) == [op |-> "other", ok |-> FALSE, err |-> err]

\* The concurrent callers of one engine (HTTP and gRPC serve every request on
\* its own goroutine).
MaxCallers == 2

Callers == 1..MaxCallers

\* One engine call in flight: pc is the statement the caller runs next, op the
\* method, then the arguments and the locals (ok of GetURL, n for
\* len(storager.URLMap) or the counter value read, filteredStore of
\* DeleteByUserID and StoreURLBatch, forStore for the entries the loop of
\* StoreURLBatch has not looked at yet, err for the error returned); marked
\* is a history of the codes whose (code, userID) entry the first loop of
\* DeleteByUserID has written, known a history of the ids of usedUserIDs
\* when GetLastUserID was entered.  Where the lock itself is modelled, ops
\* is the calls on storager.mu the method has yet to make, rlocks the read
\* locks the caller holds and wlock its state as a writer ("none", "pending"
\* once Lock has announced it, "held").
Call(pc, op, shortURLs, originalURL, userID) ==
    [pc |-> pc, op |-> op, shortURLs |-> shortURLs,
     originalURL |-> originalURL, userID |-> userID,
     ok |-> FALSE, n |-> 0, filteredStore |-> <<>>, marked |-> {},
     forStore |-> <<>>, err |-> FALSE, known |-> {},
     ops |-> <<>>, rlocks |-> 0, wlock |-> "none"]

Idle == Call("idle", "none", <<>>, "", 0)

\* The engine as constructed over an empty log or an empty database:
\* NewFileStorage ("file"), NewFileStoragerWithoutReadingData ("memory"),
\* NewDatabaseStorage ("db").
Init ==
    /\ backend \in {"memory", "file", "db"}
    /\ URLMap = EmptyMap
    /\ lastUserID = IF backend = "memory" THEN 1 ELSE 0
    /\ usedUserIDs = IF backend = "memory" THEN <<1>> ELSE <<>>
    /\ file = <<>>
    /\ urls = <<>>
    /\ urls_id_seq = 0
    /\ last_user_id = 1
    /\ last = NoCall
    /\ stored = {}
    /\ issued = <<>>
    /\ goroutines = {}
    /\ completed = {}
    /\ calls = [c \in Callers |-> Idle]

goVars == <<goroutines, completed, calls>>
dbVars == <<urls, urls_id_seq, last_user_id>>
idVars == <<lastUserID, usedUserIDs, issued>>

(***************************************************************************)
(* FileStorage: the calls that write.                                      *)
(***************************************************************************)
FileStoreURL(shortURL, originalURL, userID) ==
    LET got == FileGetURL(URLMap, shortURL, userID)
        savedURL == SavedURL(Cardinality(DOMAIN URLMap), shortURL,
                             originalURL, userID, FALSE)
    IN /\ isFileStorage
       /\ IF got.ok
          THEN UNCHANGED <<URLMap, file, stored>>
          ELSE /\ Len(file) < MaxLog
               /\ Cardinality(DOMAIN URLMap) < MaxKeys
               /\ URLMap' = MapPut(URLMap, URLMapKey(shortURL, userID), savedURL)
               /\ file' = Save(file, savedURL)
               /\ stored' = stored \cup Created(<<savedURL>>, userID, "StoreURL")
       /\ last' = StoreURLCall(got.ok, FALSE)
       /\ UNCHANGED <<backend, goVars>>
       /\ UNCHANGED dbVars
       /\ UNCHANGED idVars

FileStoreURLBatch(originalURLs, userID) ==
    LET forStore == BatchOf(originalURLs)
        st == FileFilterBatch([URLMap |-> URLMap, filteredStore |-> <<>>],
                              forStore, userID)
    IN /\ isFileStorage
       /\ Cardinality(DOMAIN st.URLMap) <= MaxKeys
       /\ URLMap' = st.URLMap
       /\ IF Len(st.filteredStore) # 0 /\ isWithFile
          THEN /\ Len(file) + Len(st.filteredStore) <= MaxLog
               /\ file' = SaveAll(file, st.filteredStore)
          ELSE UNCHANGED file
       /\ stored' = stored \cup Created(st.filteredStore, userID, "StoreURLBatch")
       /\ last' = StoreURLBatchCall(FALSE)
       /\ UNCHANGED <<backend, goVars>>
       /\ UNCHANGED dbVars
       /\ UNCHANGED idVars

FileDeleteByUserID(shortURLs, userID) ==
    /\ isFileStorage
    /\ \E marked \in FileMarkDeleted(URLMap, shortURLs, userID) :
         LET filteredStore == FileDeletedToSave(marked, shortURLs, userID)
         IN /\ Cardinality(DOMAIN marked) <= MaxKeys
            /\ URLMap' = marked
            /\ IF isWithFile
               THEN /\ Len(file) + Len(filteredStore) <= MaxLog
                    /\ file' = SaveAll(file, filteredStore)
               ELSE UNCHANGED file
    /\ last' = NoCall
    /\ UNCHANGED <<backend, goVars, stored>>
    /\ UNCHANGED dbVars
    /\ UNCHANGED idVars

\* The process is started again: NewFileStorage over the same file.
FileRestart ==
    LET st == NewFileStorage(file)
    IN /\ isWithFile
       /\ URLMap' = st.URLMap
       /\ usedUserIDs' = st.usedUserIDs
       /\ lastUserID' = st.lastUserID
       /\ issued' = <<>>
       /\ last' = NoCall
       /\ UNCHANGED <<backend, goVars, file, stored>>
       /\ UNCHANGED dbVars

(***************************************************************************)
(* DatabaseStorage: the calls that write.                                  *)
(***************************************************************************)
DBStoreURL(shortURL, originalURL, userID) ==
    LET got == DBGetURL(urls, shortURL, userID)
        savedURL == SavedURL(0, shortURL, originalURL, userID, FALSE)
        ins == InsertSavedURLBatch(urls, urls_id_seq, <<savedURL>>, userID)
    IN /\ backend = "db"
       /\ IF got.ok
          THEN /\ UNCHANGED <<urls, urls_id_seq, stored>>
               /\ last' = StoreURLCall(TRUE, FALSE)
          ELSE /\ urls_id_seq + 1 <= MaxSerial
               /\ urls' = ins.urls
               /\ urls_id_seq' = ins.urls_id_seq
               /\ stored' = IF ins.err THEN stored
                            ELSE stored \cup Created(<<savedURL>>, userID, "StoreURL")
               /\ last' = StoreURLCall(FALSE, ins.err)
       /\ UNCHANGED <<backend, goVars, URLMap, file, last_user_id>>
       /\ UNCHANGED idVars

DBStoreURLBatch(originalURLs, userID) ==
    LET forStore == BatchOf(originalURLs)
        filteredStore == DBFilterBatch(urls, forStore, userID)
        ins == InsertSavedURLBatch(urls, urls_id_seq, filteredStore, userID)
    IN /\ backend = "db"
       /\ IF Len(filteredStore) # 0
          THEN /\ urls_id_seq + Len(filteredStore) <= MaxSerial
               /\ urls' = ins.urls
               /\ urls_id_seq' = ins.urls_id_seq
               /\ stored' = IF ins.err THEN stored
                            ELSE stored \cup Created(filteredStore, userID, "StoreURLBatch")
          ELSE UNCHANGED <<urls, urls_id_seq, stored>>
       /\ last' = StoreURLBatchCall(Len(filteredStore) # 0 /\ ins.err)
       /\ UNCHANGED <<backend, goVars, URLMap, file, last_user_id>>
       /\ UNCHANGED idVars

DBDeleteByUserID(shortURLs, userID) ==
    /\ backend = "db"
    /\ urls' = UpdateDeletedSavedURLBatch(urls, shortURLs, userID)
    /\ last' = NoCall
    /\ UNCHANGED <<backend, goVars, URLMap, file, urls_id_seq, last_user_id,
                   stored>>
    /\ UNCHANGED idVars

\* A new engine over the same database: NewDatabaseStorage.  (The schema
\* statement of NewDBConnector has run once, before Init.)
DBRestart ==
    /\ backend = "db"
    /\ usedUserIDs' = DBReadAllData(<<>>, urls)
    /\ lastUserID' = 0
    /\ issued' = <<>>
    /\ last' = NoCall
    /\ UNCHANGED <<backend, goVars, URLMap, file, stored>>
    /\ UNCHANGED dbVars

(***************************************************************************)
(* Identities.                                                             *)
(***************************************************************************)
\* A faulty GetLastUserID: the counter is returned without the increment.
FileGetLastUserID_NoIncrement(id) == id

\* FileStorage.GetLastUserID: the counter is incremented and returned.
FileGetLastUserID(id) == id + 1

\* A faulty SaveUserID: the slice is replaced instead of appended to.
SaveUserID_Replace(used, userID) == <<userID>>

\* SaveUserID: the id is appended to usedUserIDs.
SaveUserID(used, userID) == Append(used, userID)

\* GetLastUserID on the current engine: the id returned and the counters
\* it leaves.
GetLastUserID ==
    IF isFileStorage
    THEN [id |-> FileGetLastUserID(lastUserID),
          lastUserID |-> FileGetLastUserID(lastUserID),
          last_user_id |-> last_user_id]
    ELSE [id |-> IncrementID(last_user_id),
          lastUserID |-> IncrementID(last_user_id),
          last_user_id |-> IncrementID(last_user_id)]

CanAllocate ==
    IF isFileStorage THEN lastUserID < MaxUserID ELSE last_user_id < MaxUserID

\* HTTP authMiddleware, request without cookie: GetLastUserID, the cookie is
\* set, SaveUserID.
AuthMiddlewareNoCookie ==
    LET got == GetLastUserID
    IN /\ CanAllocate
       /\ lastUserID' = got.lastUserID
       /\ last_user_id' = got.last_user_id
       /\ usedUserIDs' = SaveUserID(usedUserIDs, got.id)
       /\ issued' = Append(issued, got.id)
       /\ last' = NoCall
       /\ UNCHANGED <<backend, goVars, URLMap, file, urls, urls_id_seq, stored>>

\* gRPC makeNewCtxWithUserID, call without metadata: GetLastUserID, and the
\* id goes into the token and the context.  SaveUserID is not called.
MakeNewCtxWithUserID ==
    LET got == GetLastUserID
    IN /\ CanAllocate
       /\ lastUserID' = got.lastUserID
       /\ last_user_id' = got.last_user_id
       /\ issued' = Append(issued, got.id)
       /\ last' = NoCall
       /\ UNCHANGED <<backend, goVars, URLMap, file, urls, urls_id_seq,
                      usedUserIDs, stored>>

Next ==
    \/ \E u \in URLs, o \in Owners : FileStoreURL(GenerateShortURL(u), u, o)
    \/ \E b \in SeqsUpTo(URLs, MaxBatch), o \in Owners : FileStoreURLBatch(b, o)
    \/ \E cs \in SeqsUpTo(Codes, MaxCodes), o \in Owners : FileDeleteByUserID(cs, o)
    \/ FileRestart
    \/ \E u \in URLs, o \in Owners : DBStoreURL(GenerateShortURL(u), u, o)
    \/ \E b \in SeqsUpTo(URLs, MaxBatch), o \in Owners : DBStoreURLBatch(b, o)
    \/ \E cs \in SeqsUpTo(Codes, MaxCodes), o \in Owners : DBDeleteByUserID(cs, o)
    \/ DBRestart
    \/ AuthMiddlewareNoCookie
    \/ MakeNewCtxWithUserID

Spec == Init /\ [][Next]_vars

\* The engine alone: the calls that read and write records, and restarts.
\* The identity calls touch none of URLMap, file and urls.
NextStorage ==
    \/ \E u \in URLs, o \in Owners : FileStoreURL(GenerateShortURL(u), u, o)
    \/ \E b \in SeqsUpTo(URLs, MaxBatch), o \in Owners : FileStoreURLBatch(b, o)
    \/ \E cs \in SeqsUpTo(Codes, MaxCodes), o \in Owners : FileDeleteByUserID(cs, o)
    \/ FileRestart
    \/ \E u \in URLs, o \in Owners : DBStoreURL(GenerateShortURL(u), u, o)
    \/ \E b \in SeqsUpTo(URLs, MaxBatch), o \in Owners : DBStoreURLBatch(b, o)
    \/ \E cs \in SeqsUpTo(Codes, MaxCodes), o \in Owners : DBDeleteByUserID(cs, o)
    \/ DBRestart

SpecStorage == Init /\ [][NextStorage]_vars

(***************************************************************************)
(* HTTP handlers that only read.  A response is [status, Location]; an     *)
(* empty Location is no Location header.                                   *)
(***************************************************************************)
Response(status, location) == [status |-> status, Location |-> location]

\* A faulty GetHandler: the Deleted flag of the record is not looked at.
GetHandler_NoGoneCheck(shortURL) ==
    {IF ~got.ok THEN Response(400, "")
     ELSE Response(307, got.rec.OriginalURL) :
        got \in GetURLForAnyUserID(shortURL)}

\* GetHandler: GetURLForAnyUserID, then 400 when nothing is found, 410 when
\* the record found is deleted, else 307 with the Location header.
GetHandler(shortURL) ==
    {IF ~got.ok THEN Response(400, "")
     ELSE IF got.rec.Deleted THEN Response(410, "")
     ELSE Response(307, got.rec.OriginalURL) :
        got \in GetURLForAnyUserID(shortURL)}

(***************************************************************************)
(* The same calls when the backend write fails: Save returns an error      *)
(* (os.OpenFile or file.Write failed), or stmt.ExecContext returns an      *)
(* error that is not a constraint violation (the connection is lost).      *)
(***************************************************************************)
\* The save loop of StoreURLBatch where the Saves marked in fails return an
\* error and append nothing.
RECURSIVE SaveSome(_, _, _)
SaveSome(lines, savedURLs, fails) ==
    IF savedURLs = <<>> THEN lines
    ELSE SaveSome(IF Head(fails) THEN lines ELSE Save(lines, Head(savedURLs)),
                  Tail(savedURLs), Tail(fails))

\* FileStorage.StoreURL, the key is new and Save fails: the entry is in the
\* map, nothing is appended, and the error of Save is dropped.
FileStoreURLSaveFails(shortURL, originalURL, userID) ==
    LET got == FileGetURL(URLMap, shortURL, userID)
        savedURL == SavedURL(Cardinality(DOMAIN URLMap), shortURL,
                             originalURL, userID, FALSE)
    IN /\ isFileStorage
       /\ ~got.ok
       /\ Cardinality(DOMAIN URLMap) < MaxKeys
       /\ URLMap' = MapPut(URLMap, URLMapKey(shortURL, userID), savedURL)
       /\ stored' = stored \cup Created(<<savedURL>>, userID, "StoreURL")
       /\ last' = StoreURLCall(FALSE, FALSE)
       /\ UNCHANGED <<backend, goVars, file>>
       /\ UNCHANGED dbVars
       /\ UNCHANGED idVars

\* FileStorage.StoreURLBatch where at least one Save fails.
FileStoreURLBatchSaveFails(originalURLs, userID) ==
    LET forStore == BatchOf(originalURLs)
        st == FileFilterBatch([URLMap |-> URLMap, filteredStore |-> <<>>],
                              forStore, userID)
    IN /\ isWithFile
       /\ Len(st.filteredStore) # 0
       /\ Cardinality(DOMAIN st.URLMap) <= MaxKeys
       /\ URLMap' = st.URLMap
       /\ \E fails \in [1..Len(st.filteredStore) -> BOOLEAN] :
            /\ \E i \in DOMAIN fails : fails[i]
            /\ Len(SaveSome(file, st.filteredStore, fails)) <= MaxLog
            /\ file' = SaveSome(file, st.filteredStore, fails)
       /\ stored' = stored \cup Created(st.filteredStore, userID, "StoreURLBatch")
       /\ last' = StoreURLBatchCall(FALSE)
       /\ UNCHANGED <<backend, goVars>>
       /\ UNCHANGED dbVars
       /\ UNCHANGED idVars

\* DatabaseStorage.StoreURL, the key is new and the INSERT fails: the
\* transaction is rolled back and the error is returned.
DBStoreURLInsertFails(shortURL, originalURL, userID) ==
    /\ backend = "db"
    /\ ~DBGetURL(urls, shortURL, userID).ok
    /\ last' = StoreURLCall(FALSE, TRUE)
    /\ UNCHANGED <<backend, goVars, URLMap, file, stored>>
    /\ UNCHANGED dbVars
    /\ UNCHANGED idVars

\* DatabaseStorage.StoreURLBatch where an INSERT fails.
DBStoreURLBatchInsertFails(originalURLs, userID) ==
    /\ backend = "db"
    /\ Len(DBFilterBatch(urls, BatchOf(originalURLs), userID)) # 0
    /\ last' = StoreURLBatchCall(TRUE)
    /\ UNCHANGED <<backend, goVars, URLMap, file, stored>>
    /\ UNCHANGED dbVars
    /\ UNCHANGED idVars

\* A store call whose backend write fails.
WriteFails ==
    \/ \E u \in URLs, o \in Owners :
         FileStoreURLSaveFails(GenerateShortURL(u), u, o)
    \/ \E b \in SeqsUpTo(URLs, MaxBatch), o \in Owners :
         FileStoreURLBatchSaveFails(b, o)
    \/ \E u \in URLs, o \in Owners :
         DBStoreURLInsertFails(GenerateShortURL(u), u, o)
    \/ \E b \in SeqsUpTo(URLs, MaxBatch), o \in Owners :
         DBStoreURLBatchInsertFails(b, o)

\* A store call whose backend write succeeds, or that has nothing to write.
WriteSucceeds ==
    \/ \E u \in URLs, o \in Owners : FileStoreURL(GenerateShortURL(u), u, o)
    \/ \E b \in SeqsUpTo(URLs, MaxBatch), o \in Owners : FileStoreURLBatch(b, o)
    \/ \E u \in URLs, o \in Owners : DBStoreURL(GenerateShortURL(u), u, o)
    \/ \E b \in SeqsUpTo(URLs, MaxBatch), o \in Owners : DBStoreURLBatch(b, o)

\* The store calls alone, each with a write that succeeds or fails.
NextFault == WriteSucceeds \/ WriteFails

SpecFault == Init /\ [][NextFault]_vars

(***************************************************************************)
(* Replay of a log that holds lines json.Unmarshal rejects.                *)
(***************************************************************************)
\* The log gets a line that is not JSON, from outside the engine.
CorruptLine ==
    /\ isWithFile
    /\ Len(file) < MaxLog
    /\ file' = Append(file, BadLine)
    /\ last' = NoCall
    /\ UNCHANGED <<backend, goVars, URLMap, stored>>
    /\ UNCHANGED dbVars
    /\ UNCHANGED idVars

\* The lines of the log that parse.
ParsableLines(lines) == SelectSeq(lines, LAMBDA line : line # BadLine)

NextReplay ==
    \/ \E u \in URLs, o \in Owners : FileStoreURL(GenerateShortURL(u), u, o)
    \/ \E b \in SeqsUpTo(URLs, MaxBatch), o \in Owners : FileStoreURLBatch(b, o)
    \/ \E cs \in SeqsUpTo(Codes, MaxCodes), o \in Owners : FileDeleteByUserID(cs, o)
    \/ FileRestart
    \/ CorruptLine

SpecReplay == Init /\ [][NextReplay]_vars

(***************************************************************************)
(* Delete requests.  deleteByUserIDHandler (HTTP) starts the deletion in a *)
(* goroutine and answers 202; DeleteURLs (gRPC) deletes item by item while *)
(* it reads the stream and answers when the stream has ended.              *)
(***************************************************************************)
MaxTasks == 1
\* the number of HTTP delete requests made

\* One DeleteByUserID call on the engine st = [URLMap, file, urls]: the set
\* of outcomes [URLMap, file, urls, err].  fails says that the UPDATE returns
\* an error (context cancelled, connection lost); FileStorage.DeleteByUserID
\* does not read its context and always returns nil.
DeleteResults(st, shortURLs, userID, fails) ==
    IF isFileStorage
    THEN {[URLMap |-> marked,
           file |-> IF isWithFile
                    THEN SaveAll(st.file,
                                 FileDeletedToSave(marked, shortURLs, userID))
                    ELSE st.file,
           urls |-> st.urls,
           err |-> FALSE] :
            marked \in FileMarkDeleted(st.URLMap, shortURLs, userID)}
    ELSE IF fails
         THEN {[URLMap |-> st.URLMap, file |-> st.file, urls |-> st.urls,
                err |-> TRUE]}
         ELSE {[URLMap |-> st.URLMap, file |-> st.file,
                urls |-> UpdateDeletedSavedURLBatch(st.urls, shortURLs, userID),
                err |-> FALSE]}

Engine == [URLMap |-> URLMap, file |-> file, urls |-> urls]

\* The context the goroutine of deleteByUserIDHandler passes to the engine:
\* here the context of the request, which is cancelled with the request.
DetachedCtx_Request == "request"

\* The context the goroutine of deleteByUserIDHandler passes to the engine:
\* context.Background().
DetachedCtx == "background"

\* A started deletion.  owned is the listed codes the caller holds a record
\* for when the request is made; cancelled says that the request context
\* has been cancelled (the client is gone, or the handler has returned).
Task(id, shortURLs, userID, owned) ==
    [id |-> id, shortURLs |-> shortURLs, userID |-> userID, owned |-> owned,
     ctx |-> DetachedCtx, cancelled |-> FALSE]

DeleteCall(op, ok, err) == [op |-> op, ok |-> ok, err |-> err]

\* deleteByUserIDHandler with a valid token and a JSON list: the goroutine
\* is started and the answer is 202 Accepted.
deleteByUserIDHandler(shortURLs, userID) ==
    LET id == Cardinality(goroutines) + Cardinality(completed) + 1
        owned == {shortURLs[i] : i \in
                    {j \in 1..Len(shortURLs) :
                       KeyURLs(shortURLs[j], userID) # {}}}
    IN /\ id <= MaxTasks
       /\ goroutines' = goroutines \cup {Task(id, shortURLs, userID, owned)}
       /\ last' = DeleteCall("deleteByUserIDHandler", TRUE, FALSE)
       /\ UNCHANGED <<backend, URLMap, file, stored, completed, calls>>
       /\ UNCHANGED dbVars
       /\ UNCHANGED idVars

\* The context of the request is cancelled while its goroutine has not
\* returned.
RequestCancelled(task) ==
    /\ task \in goroutines
    /\ ~task.cancelled
    /\ goroutines' = (goroutines \ {task})
                        \cup {[task EXCEPT !.cancelled = TRUE]}
    /\ UNCHANGED <<backend, URLMap, file, stored, completed, calls, last>>
    /\ UNCHANGED dbVars
    /\ UNCHANGED idVars

\* The goroutine runs: DeleteByUserID(ctx, slice, userID); an error is only
\* logged.  The UPDATE fails when ctx is a cancelled context.
DetachedDelete(task) ==
    /\ task \in goroutines
    /\ \E r \in DeleteResults(Engine, task.shortURLs, task.userID,
                               task.ctx = "request" /\ task.cancelled) :
         /\ URLMap' = r.URLMap
         /\ file' = r.file
         /\ urls' = r.urls
         /\ completed' = completed \cup {[task |-> task, err |-> r.err]}
    /\ goroutines' = goroutines \ {task}
    /\ UNCHANGED <<backend, stored, last, urls_id_seq, last_user_id, calls>>
    /\ UNCHANGED idVars

\* The loop of DeleteURLs over the requests of the stream: one
\* DeleteByUserID per item; the item at failsAt (0: none) gets an error from
\* the engine and ends the loop.  The set of outcomes.
RECURSIVE DeleteEach(_, _, _, _)
DeleteEach(st, shortURLs, userID, failsAt) ==
    IF shortURLs = <<>>
    THEN {[URLMap |-> st.URLMap, file |-> st.file, urls |-> st.urls,
           err |-> FALSE]}
    ELSE UNION {IF r.err THEN {r}
                ELSE DeleteEach(r, Tail(shortURLs), userID, failsAt - 1) :
                  r \in DeleteResults(st, <<Head(shortURLs)>>, userID,
                                      failsAt = 1)}

\* DeleteURLs (gRPC): an error of the engine is answered with codes.Internal;
\* "URLs deleted" is answered when the stream has ended.
DeleteURLs(shortURLs, userID, failsAt) ==
    /\ \E r \in DeleteEach(Engine, shortURLs, userID, failsAt) :
         /\ Len(r.file) <= MaxLog
         /\ Cardinality(DOMAIN r.URLMap) <= MaxKeys
         /\ URLMap' = r.URLMap
         /\ file' = r.file
         /\ urls' = r.urls
         /\ last' = DeleteCall("DeleteURLs", ~r.err, r.err)
    /\ UNCHANGED <<backend, goVars, stored, urls_id_seq, last_user_id>>
    /\ UNCHANGED idVars

\* A delete request with a valid identity and a well-formed list of codes.
DeleteRequest ==
    \/ \E cs \in SeqsUpTo(Codes, MaxCodes), o \in Owners :
         deleteByUserIDHandler(cs, o)
    \/ \E cs \in SeqsUpTo(Codes, MaxCodes), o \in Owners :
         \E failsAt \in IF isFileStorage THEN {0} ELSE 0..Len(cs) :
           DeleteURLs(cs, o, failsAt)

\* Stores, delete requests over both transports, and the goroutines.
NextDelete ==
    \/ \E u \in URLs, o \in Owners : FileStoreURL(GenerateShortURL(u), u, o)
    \/ \E u \in URLs, o \in Owners : DBStoreURL(GenerateShortURL(u), u, o)
    \/ DeleteRequest
    \/ \E task \in goroutines : DetachedDelete(task)

SpecDelete == Init /\ [][NextDelete]_vars

\* Stores, HTTP delete requests, cancellation of their contexts, and the
\* goroutines.  The Go scheduler runs every goroutine that can run.
NextDetached ==
    \/ \E u \in URLs, o \in Owners : FileStoreURL(GenerateShortURL(u), u, o)
    \/ \E u \in URLs, o \in Owners : DBStoreURL(GenerateShortURL(u), u, o)
    \/ \E cs \in SeqsUpTo(Codes, MaxCodes), o \in Owners :
         deleteByUserIDHandler(cs, o)
    \/ \E task \in goroutines : RequestCancelled(task)
    \/ \E task \in goroutines : DetachedDelete(task)

SpecDetached ==
    /\ Init
    /\ [][NextDetached]_vars
    /\ WF_vars(\E task \in goroutines : DetachedDelete(task))

(***************************************************************************)
(* The file engine with identities: stores, restarts and allocations.      *)
(***************************************************************************)
NextAllocate ==
    \/ \E u \in URLs, o \in Owners : FileStoreURL(GenerateShortURL(u), u, o)
    \/ \E b \in SeqsUpTo(URLs, MaxBatch), o \in Owners : FileStoreURLBatch(b, o)
    \/ FileRestart
    \/ CorruptLine
    \/ AuthMiddlewareNoCookie
    \/ MakeNewCtxWithUserID

SpecAllocate == Init /\ [][NextAllocate]_vars

(***************************************************************************)
(* The Storage interface: a call goes to the engine that was constructed.  *)
(***************************************************************************)
StoreURL(shortURL, originalURL, userID) ==
    \/ FileStoreURL(shortURL, originalURL, userID)
    \/ DBStoreURL(shortURL, originalURL, userID)

StoreURLBatch(originalURLs, userID) ==
    \/ FileStoreURLBatch(originalURLs, userID)
    \/ DBStoreURLBatch(originalURLs, userID)

DeleteByUserID(shortURLs, userID) ==
    \/ FileDeleteByUserID(shortURLs, userID)
    \/ DBDeleteByUserID(shortURLs, userID)

Restart == FileRestart \/ DBRestart

(***************************************************************************)
(* Requests that present a validly signed token.  The token carries any    *)
(* owner id; the transport checks it before the handler runs.              *)
(***************************************************************************)
TokenIDs == 0..MaxUserID

\* The answer of a rejected request: 401 Unauthorized (authMiddleware) or
\* codes.Unauthenticated (makeNewCtxByMetada); no handler has run.
Unauthorized ==
    /\ last' = [op |-> "Unauthorized", ok |-> FALSE, err |-> TRUE]
    /\ UNCHANGED <<backend, goVars, URLMap, file, stored>>
    /\ UNCHANGED dbVars
    /\ UNCHANGED idVars

\* getByUserIDHandler: ReadAllDataForUserID; 400 on an error, 204 for an
\* empty list, else 200.
getByUserIDHandler(userID) ==
    /\ last' = [op |-> "ReadAllDataForUserID",
                ok |-> Len(ReadAllDataForUserID(userID).list) # 0,
                err |-> ReadAllDataForUserID(userID).err]
    /\ UNCHANGED <<backend, goVars, URLMap, file, stored>>
    /\ UNCHANGED dbVars
    /\ UNCHANGED idVars

\* authMiddleware, request with a cookie whose token is valid: 401 unless
\* IsItCorrectUserID(userID), else the handler of the route (here
\* PostHandler or getByUserIDHandler).
AuthMiddlewareCookie(userID) ==
    IF ~IsItCorrectUserID(userID)
    THEN Unauthorized
    ELSE \/ \E u \in URLs : StoreURL(GenerateShortURL(u), u, userID)
         \/ getByUserIDHandler(userID)

\* The gRPC interceptors, call with an authorization token that is valid:
\* makeNewCtxByMetada answers Unauthenticated unless authenticate finds
\* IsItCorrectUserID(userID), else the method runs (ShortenURL, DeleteURLs).
MakeNewCtxByMetada(userID) ==
    IF ~IsItCorrectUserID(userID)
    THEN Unauthorized
    ELSE \/ \E u \in URLs : StoreURL(GenerateShortURL(u), u, userID)
         \/ \E cs \in SeqsUpTo(Codes, MaxCodes) :
              \E failsAt \in IF isFileStorage THEN {0} ELSE 0..Len(cs) :
                DeleteURLs(cs, userID, failsAt)

\* A request that presents a valid token for userID, over either transport.
TokenRequest(userID) ==
    AuthMiddlewareCookie(userID) \/ MakeNewCtxByMetada(userID)

NextAuth ==
    \/ AuthMiddlewareNoCookie
    \/ MakeNewCtxWithUserID
    \/ \E userID \in TokenIDs : AuthMiddlewareCookie(userID)
    \/ \E userID \in TokenIDs : MakeNewCtxByMetada(userID)

SpecAuth == Init /\ [][NextAuth]_vars

CodeLists == SeqsUpTo(Codes, MaxCodes)

Batches == SeqsUpTo(URLs, MaxBatch)

\* What a call persisted: the short codes of the log lines, or of the table
\* rows, that are there after the call and were not before it.
IsPrefix(old, new) ==
    Len(old) <= Len(new) /\ SubSeq(new, 1, Len(old)) = old

WrittenCodes(old, new) ==
    {IF backend = "db" THEN new[i].shortURL ELSE new[i].short_url :
        i \in Len(old) + 1 .. Len(new)}

\* The persistent store of the current engine: the log or the table.
Persistent == IF backend = "db" THEN urls ELSE file

\* Owners that created an entry for the code, by either store call.
StoredBy(shortURL) == {t[3] : t \in {x \in stored : x[1] = shortURL}}

(***************************************************************************)
(* Properties.                                                             *)
(***************************************************************************)

\* C1: StoreURL(code, url, owner) called twice in sequence reports
\* alreadyExisted = false on the first call and true on the second, and the
\* stored URL is unchanged.  Per step: a StoreURL call that returns no error
\* reports "already existed" exactly when the key was found at its start,
\* it leaves the key found (so the same call made next reports true), and
\* when the key was found it leaves what is stored under it as it was.
C1_StoreURLTwice ==
    [][\A u \in URLs, o \in Owners :
         (StoreURL(GenerateShortURL(u), u, o) /\ ~last'.err) =>
            /\ last'.ok <=> (KeyURLs(GenerateShortURL(u), o) # {})
            /\ KeyURLs(GenerateShortURL(u), o)' # {}
            /\ (KeyURLs(GenerateShortURL(u), o) = {}) =>
                  (KeyURLs(GenerateShortURL(u), o)' = {u})
            /\ (KeyURLs(GenerateShortURL(u), o) # {}) =>
                  (KeyURLs(GenerateShortURL(u), o)' =
                     KeyURLs(GenerateShortURL(u), o))]_vars

\* A StoreURL call has just reported that the key already existed, for a key
\* that an earlier StoreURL call created.
C1_Witness ==
    /\ last.op = "StoreURL" /\ last.ok /\ ~last.err
    /\ \E t \in stored : t[4] = "StoreURL" /\ KeyURLs(t[1], t[3]) = {t[2]}

\* C2: after StoreURL(c, u, ownerA), as long as no other owner has stored c,
\* GetURL(c, ownerB) reports not-found for every ownerB # ownerA and
\* GetURLForAnyUserID(c) reports found with u.
C2_OnlyOwnerFinds ==
    \A t \in stored :
        (t[4] = "StoreURL" /\ StoredBy(t[1]) = {t[3]}) =>
            /\ \A ownerB \in Owners \ {t[3]} :
                  \A got \in GetURL(t[1], ownerB) : ~got.ok
            /\ \A got \in GetURLForAnyUserID(t[1]) :
                  got.ok /\ got.rec.OriginalURL = t[2]

\* C3: in every state where ownerA stored c (whether or not other owners
\* also stored c), after DeleteByUserID([c], ownerA) GetURLForAnyUserID(c)
\* reports found with deleted = true and ReadAllDataForUserID(ownerA) still
\* contains c.
C3_DeletedSeenByAnyOwner ==
    [][\A t \in stored :
         (t[4] = "StoreURL" /\ DeleteByUserID(<<t[1]>>, t[3])) =>
            /\ \A got \in GetURLForAnyUserID(t[1])' :
                  got.ok /\ got.rec.Deleted
            /\ \E i \in 1..Len(ReadAllDataForUserID(t[3])'.list) :
                  ReadAllDataForUserID(t[3])'.list[i].ShortURL = t[1]]_vars

\* C4: after DeleteByUserID([c], owner) for a record that owner stored,
\* GetURL(c, owner) reports not-found, on every backend.
C4_DeletedNotFound ==
    [][\A t \in stored :
         (t[4] = "StoreURL" /\ DeleteByUserID(<<t[1]>>, t[3])) =>
            \A got \in GetURL(t[1], t[3])' : ~got.ok]_vars

\* C5: DeleteByUserID(codes, ownerB) leaves every other owner's
\* ReadAllDataForUserID result, and the deleted flags in it, unchanged, also
\* when ownerA stored a listed code.
C5_DeleteLeavesOthers ==
    [][\A shortURLs \in CodeLists, ownerB \in Owners :
         DeleteByUserID(shortURLs, ownerB) =>
            \A ownerA \in Owners \ {ownerB} :
               ReadAllDataForUserID(ownerA)' = ReadAllDataForUserID(ownerA)]_vars

\* Only store calls have shaped the index and the log: every key of the
\* index was created for its owner by a store call, and nothing is deleted.
OnlyStores ==
    /\ \A k \in DOMAIN URLMap :
          /\ ~URLMap[k].Deleted
          /\ \E t \in stored :
                t[1] = k[1] /\ t[3] = k[2] /\ t[2] = URLMap[k].OriginalURL
    /\ \A i \in 1..Len(file) : ~Unmarshal(file[i]).Deleted

\* C6: file backend: after any sequence of StoreURL / StoreURLBatch calls,
\* an engine rebuilt from the log finds every key that was found before,
\* with the same URL.
C6_ReplayFindsStored ==
    [][(FileRestart /\ OnlyStores) =>
          \A shortURL \in Codes, userID \in Owners :
             KeyURLs(shortURL, userID) \subseteq KeyURLs(shortURL, userID)']_vars

\* C7: file backend: a record stored by StoreURL and then soft-deleted by
\* its owner is held by the rebuilt engine with deleted = true.
C7_ReplayKeepsDeleted ==
    [][\A t \in stored :
         (/\ FileRestart
          /\ t[4] = "StoreURL"
          /\ URLMapKey(t[1], t[3]) \in DOMAIN URLMap
          /\ URLMap[URLMapKey(t[1], t[3])].Deleted) =>
            /\ URLMapKey(t[1], t[3]) \in DOMAIN URLMap'
            /\ URLMap'[URLMapKey(t[1], t[3])].Deleted]_vars

\* C8: on one engine instance, the ids returned by sequential GetLastUserID
\* calls are strictly increasing.
C8_IssuedIncreasing ==
    \A i, j \in 1..Len(issued) : i < j => issued[i] < issued[j]

\* One engine instance has returned three ids.
C8_Witness == Len(issued) >= 3

\* C9: IsItCorrectUserID(id) is true for every id the engine instance has
\* returned from GetLastUserID, for the HTTP and the RPC adapter alike.
C9_IssuedIsKnown ==
    \A i \in 1..Len(issued) : IsItCorrectUserID(issued[i])

\* C10: once IsItCorrectUserID(id) is true it is true in every later state
\* of the same engine instance.
C10_KnownStaysKnown ==
    [][~Restart =>
          \A id \in 0..MaxUserID :
             IsItCorrectUserID(id) => IsItCorrectUserID(id)']_vars

\* An id the instance issued is known, a second id was registered after it,
\* and a store call has completed since.
C10_Witness ==
    /\ Len(issued) >= 2
    /\ IsItCorrectUserID(issued[1])
    /\ IsItCorrectUserID(issued[Len(issued)])
    /\ last.op = "StoreURL"

\* C11: StoreURLBatch(records, owner) persists (log append or table insert)
\* exactly the batch entries whose (code, owner) key was not present before
\* the call, writes nothing for the entries that were present, and leaves
\* the records that were present as they were.
C11_BatchPersistsAbsent ==
    [][(backend # "memory" /\ last'.op = "other") =>
         \A b \in Batches, o \in Owners :
           StoreURLBatch(b, o) =>
             LET absent == {GenerateShortURL(b[i]) : i \in
                              {j \in 1..Len(b) :
                                 KeyURLs(GenerateShortURL(b[j]), o) = {}}}
             IN /\ IsPrefix(Persistent, Persistent')
                /\ WrittenCodes(Persistent, Persistent') = absent
                /\ Len(Persistent') = Len(Persistent) + Cardinality(absent)
      ]_vars

\* C12: database engine: when the INSERT of any entry of a StoreURLBatch
\* fails, the call returns an error and none of the entries of that batch is
\* persisted: the table is the same as before the call.
C12_BatchRollback ==
    [][(backend = "db" /\ last'.err) =>
         \A b \in Batches, o \in Owners :
           LET filteredStore == DBFilterBatch(urls, BatchOf(b), o)
               tx == InsertEach([rows |-> urls, seq |-> urls_id_seq,
                                 err |-> FALSE], filteredStore, o)
           IN (DBStoreURLBatch(b, o) /\ tx.err) =>
                 /\ last' = StoreURLBatchCall(TRUE)
                 /\ urls' = urls
      ]_vars

\* A batch has failed on a table that holds rows, after one of its entries
\* had been inserted in the transaction.
C12_Witness ==
    /\ backend = "db"
    /\ last = StoreURLBatchCall(TRUE)
    /\ Len(urls) > 0
    /\ urls_id_seq > Len(urls) + 1

\* C13: when the backend write fails (the append to the log, or the INSERT),
\* StoreURL and StoreURLBatch return an error that is not nil instead of
\* reporting success.
C13_WriteErrorReturned ==
    [][WriteFails => last'.err]_vars

\* C14: replay of the log by the file engine skips a line that cannot be
\* parsed: the line adds no record to the index and no identity to the
\* known set, it does not change the allocation counter, and replay goes on
\* with the lines after it.  So a replay leaves the engine as a replay of
\* the parsable lines alone would.
C14_UnparsableLineSkipped ==
    [][FileRestart =>
         LET st == NewFileStorage(ParsableLines(file))
         IN /\ URLMap' = st.URLMap
            /\ usedUserIDs' = st.usedUserIDs
            /\ lastUserID' = st.lastUserID
      ]_vars

\* The records the engine holds for a code: index entries or table rows.
RecordsOf(shortURL) ==
    IF isFileStorage
    THEN {URLMap[k] : k \in {x \in DOMAIN URLMap : x[1] = shortURL}}
    ELSE {ScanRow(urls[i]) :
            i \in {j \in 1..Len(urls) : urls[j].shortURL = shortURL}}

\* C15: resolving a short code over HTTP has three outcomes: a code with no
\* record answers 400; a code whose record found is deleted answers 410 with
\* no Location header; a code whose record found is not deleted answers 307
\* with Location equal to the original URL as it was submitted.
C15_ResolveOutcomes ==
    \A c \in Codes :
      /\ RecordsOf(c) = {} => GetHandler(c) = {Response(400, "")}
      /\ RecordsOf(c) # {} =>
            GetHandler(c) =
              {IF rec.Deleted THEN Response(410, "")
               ELSE Response(307, rec.OriginalURL) : rec \in RecordsOf(c)}
      /\ \A resp \in GetHandler(c) :
            resp.status = 307 =>
              \E t \in stored : t[1] = c /\ t[2] = resp.Location

\* One code can answer 410 or 307 (a deleted and a live record), and
\* another code has no record.
C15_Witness ==
    /\ Response(410, "") \in GetHandler("c1")
    /\ Response(307, "u1") \in GetHandler("c1")
    /\ GetHandler("c2") = {Response(400, "")}

\* PostHandler and postJSONHandler after StoreURL has returned: 400 on an
\* error, 409 when the URL was already stored, else 201.  The body carries
\* GenerateShortURL(url) in both cases.
PostHandlerStatus(call) ==
    IF call.err THEN 400 ELSE IF call.ok THEN 409 ELSE 201

\* C16: for a given owner, the first HTTP create of a URL answers 201 and
\* every later create of the same URL by the same owner answers 409 (both
\* carry the same short code, GenerateShortURL(url)).  A create is later
\* when a store call of that owner has created the entry before.
C16_FirstCreatedThenConflict ==
    [][last'.op = "StoreURL" =>
         \A u \in URLs, o \in Owners :
           StoreURL(GenerateShortURL(u), u, o) =>
             PostHandlerStatus(last') =
               IF \E t \in stored :
                    t[1] = GenerateShortURL(u) /\ t[2] = u /\ t[3] = o
               THEN 409 ELSE 201
      ]_vars

\* C17: a delete request that carries a valid identity and a well-formed
\* list of codes is always acknowledged as accepted by the transport, over
\* HTTP and over gRPC alike, whatever the soft-delete in the engine does.
C17_DeleteAlwaysAcknowledged ==
    [][DeleteRequest => (last'.ok /\ ~last'.err)]_vars

\* What is held under key (code, owner) is marked deleted.
KeyDeleted(shortURL, userID) ==
    IF isFileStorage
    THEN /\ URLMapKey(shortURL, userID) \in DOMAIN URLMap
         /\ URLMap[URLMapKey(shortURL, userID)].Deleted
    ELSE \A i \in 1..Len(urls) :
           (urls[i].shortURL = shortURL /\ urls[i].userID = userID)
             => urls[i].deleted

KnownIDs == {usedUserIDs[i] : i \in 1..Len(usedUserIDs)}

Keys ==
    IF isFileStorage THEN DOMAIN URLMap
    ELSE {URLMapKey(urls[i].shortURL, urls[i].userID) : i \in 1..Len(urls)}

\* C20: once a record exists under key (code, owner), a record exists under
\* that key in every later state of the same engine instance: no call
\* (store, batch store, delete, identity calls) removes a key from the
\* index, a line from the log or a row from the table.
C20_NothingRemoved ==
    [][\/ /\ Keys \subseteq Keys'
          /\ IsPrefix(file, file')
          /\ Len(urls) <= Len(urls')
          /\ \A i \in 1..Len(urls) :
                /\ urls'[i].id = urls[i].id
                /\ urls'[i].shortURL = urls[i].shortURL
                /\ urls'[i].originalURL = urls[i].originalURL
                /\ urls'[i].userID = urls[i].userID
       \/ Restart
      ]_vars

\* A delete has marked a record while the index, the log or the table holds
\* records of two owners.
C20_Witness ==
    /\ \E k \in Keys : KeyDeleted(k[1], k[2])
    /\ Cardinality({k[2] : k \in Keys}) >= 2
    /\ Cardinality(Keys) >= 3

\* C21: with the memory backend (a FileStorage constructed with isWithFile
\* false) no call, neither StoreURL nor StoreURLBatch nor DeleteByUserID,
\* writes to the log file.
C21_MemoryWritesNoLog ==
    [][backend = "memory" => file' = file]_vars

\* The owner ids that appear in the persisted records: the user_id of the
\* lines of the log, or the userID of the rows of the table.
PersistedOwnerIDs ==
    IF backend = "db"
    THEN {urls[i].userID : i \in 1..Len(urls)}
    ELSE {Unmarshal(file[i]).UserID : i \in 1..Len(file)}

\* C22: after a file or database engine has been constructed from persisted
\* records, IsItCorrectUserID(o) is true for every owner id o that appears
\* in those records.
C22_PersistedOwnersKnown ==
    [][Restart =>
         \A o \in PersistedOwnerIDs : findUserID(usedUserIDs', o)]_vars

\* An engine constructed from records of two owner ids.
C22_Witness ==
    /\ backend # "memory"
    /\ Cardinality(PersistedOwnerIDs) >= 2
    /\ Cardinality(KnownIDs) >= 2

\* The greatest element of a set of naturals, 0 for the empty set.
MaxOf(S) == IF S = {} THEN 0 ELSE CHOOSE m \in S : \A x \in S : x <= m

\* C23: file engine: after construction from a log, the first GetLastUserID
\* returns the maximum owner id that appears in the log plus one.  A
\* construction leaves the counter at that maximum, the counter stays there
\* until the first allocation, and the first allocation returns the counter
\* plus one.
C23_FirstIDAfterReplay ==
    [][backend = "file" =>
         /\ FileRestart => lastUserID' = MaxOf(PersistedOwnerIDs)
         /\ (issued = <<>> /\ issued' = <<>> /\ ~FileRestart) =>
               lastUserID' = lastUserID
         /\ (issued = <<>> /\ issued' # <<>>) =>
               issued' = <<lastUserID + 1>>
      ]_vars

\* The first identity allocated after a replay of a log whose greatest
\* owner id is 2.
C23_Witness ==
    /\ backend = "file"
    /\ MaxOf(PersistedOwnerIDs) = 2
    /\ issued = <<3>>

\* The keys the engine holds for an owner.
KeysOf(userID) == {k \in Keys : k[2] = userID}

\* C26: DeleteByUserID(codes, owner) never adds a key to the index: the set
\* of (code, owner) keys is the same after the call, and for a listed code
\* the owner has not stored GetURL(code, owner) stays not-found, also when
\* another owner has stored that code.
C26_DeleteAddsNoKey ==
    [][last'.op = "other" =>
         \A cs \in CodeLists, o \in Owners :
           DeleteByUserID(cs, o) =>
             /\ KeysOf(o)' = KeysOf(o)
             /\ \A i \in 1..Len(cs) :
                   KeyURLs(cs[i], o) = {} => KeyURLs(cs[i], o)' = {}
      ]_vars

\* C27: file engine: every record newly stored by StoreURLBatch(records,
\* owner) is persisted with owner as its owner id, whatever the UserID field
\* of the input records holds, so that ReadAllDataForUserID(owner) lists it
\* and a replay restores it under the key (code, owner).
C27_BatchPersistsOwner ==
    [][(backend = "file" /\ last'.op = "other") =>
         \A b \in Batches, o \in Owners :
           FileStoreURLBatch(b, o) =>
             \A i \in Len(file) + 1 .. Len(file') :
               /\ file'[i].user_id = o
               /\ \E j \in 1..Len(ReadAllDataForUserID(o).list') :
                     ReadAllDataForUserID(o).list'[j].ShortURL
                       = file'[i].short_url
               /\ URLMapKey(file'[i].short_url, o)
                     \in DOMAIN NewFileStorage(file').URLMap
      ]_vars

(***************************************************************************)
(* Concurrent callers.  A method of FileStorage is not one step here: it   *)
(* is cut wherever the code releases storager.mu or touches a field        *)
(* without holding it, and the steps of different callers interleave.  A   *)
(* section between Lock/RLock and the matching unlock is one step: the     *)
(* lock keeps every other section out of it.  An access made without the   *)
(* lock is a step of its own.  The call's results are kept in calls; last  *)
(* and stored are left alone.                                              *)
(***************************************************************************)
\* The lock a caller holds while it runs the statement at pc.
Holds(pc) ==
    CASE pc = "GetURL" -> "RLock"
      [] pc = "put" -> "Lock"
      [] pc = "mark" -> "Lock"
      [] pc = "collect" -> "RLock"
      [] pc = "SaveUserID" -> "Lock"
      [] OTHER -> "none"

\* The shared field of the engine the statement at pc reads or writes.
Touches(pc) ==
    CASE pc = "GetURL" -> [field |-> "URLMap", write |-> FALSE]
      [] pc = "len" -> [field |-> "URLMap", write |-> FALSE]
      [] pc = "put" -> [field |-> "URLMap", write |-> TRUE]
      [] pc = "mark" -> [field |-> "URLMap", write |-> TRUE]
      [] pc = "collect" -> [field |-> "URLMap", write |-> FALSE]
      [] pc = "read" -> [field |-> "lastUserID", write |-> FALSE]
      [] pc = "write" -> [field |-> "lastUserID", write |-> TRUE]
      [] pc = "return" -> [field |-> "lastUserID", write |-> FALSE]
      [] pc = "assign" -> [field |-> "lastUserID", write |-> TRUE]
      [] pc = "SaveUserID" -> [field |-> "usedUserIDs", write |-> TRUE]
      [] OTHER -> [field |-> "none", write |-> FALSE]

\* A request arrives and its goroutine enters the engine method.
Begin(c, call) ==
    /\ calls[c].pc = "idle"
    /\ calls' = [calls EXCEPT ![c] = call]
    /\ UNCHANGED <<backend, URLMap, file, last, stored, goroutines, completed>>
    /\ UNCHANGED dbVars
    /\ UNCHANGED idVars

BeginStoreURL(c, originalURL, userID) ==
    /\ isFileStorage
    /\ Begin(c, Call("GetURL", "StoreURL", <<GenerateShortURL(originalURL)>>,
                     originalURL, userID))

BeginDeleteByUserID(c, shortURLs, userID) ==
    /\ isFileStorage
    /\ Begin(c, Call("mark", "DeleteByUserID", shortURLs, "", userID))

BeginGetLastUserID(c) ==
    Begin(c, [Call(IF isFileStorage THEN "read" ELSE "IncrementID",
                   "GetLastUserID", <<>>, "", 0)
                EXCEPT !.known = {usedUserIDs[i] : i \in 1..Len(usedUserIDs)}])

\* StoreURL: `_, ok := storager.GetURL(shortURL, userID)`, under the read
\* lock GetURL takes and releases; `return true, nil` when ok.
StoreURL_GetURL(c) ==
    LET call == calls[c]
        got == FileGetURL(URLMap, call.shortURLs[1], call.userID)
    IN /\ call.pc = "GetURL"
       /\ calls' = [calls EXCEPT ![c].ok = got.ok,
                                 ![c].pc = IF got.ok THEN "done" ELSE "len"]
       /\ UNCHANGED <<backend, URLMap, file, last, stored, goroutines,
                      completed>>
       /\ UNCHANGED dbVars
       /\ UNCHANGED idVars

\* StoreURL: `UUID: len(storager.URLMap)`, read with no lock held.
StoreURL_len(c) ==
    /\ calls[c].pc = "len"
    /\ calls' = [calls EXCEPT ![c].n = Cardinality(DOMAIN URLMap),
                              ![c].pc = "put"]
    /\ UNCHANGED <<backend, URLMap, file, last, stored, goroutines, completed>>
    /\ UNCHANGED dbVars
    /\ UNCHANGED idVars

\* The savedURL StoreURL has built.
StoreURL_savedURL(call) ==
    SavedURL(call.n, call.shortURLs[1], call.originalURL, call.userID, FALSE)

\* StoreURL: the map write between mu.Lock() and mu.Unlock().
StoreURL_put(c) ==
    LET call == calls[c]
    IN /\ call.pc = "put"
       /\ Cardinality(DOMAIN URLMap
                        \cup {URLMapKey(call.shortURLs[1], call.userID)})
            <= MaxKeys
       /\ URLMap' = MapPut(URLMap, URLMapKey(call.shortURLs[1], call.userID),
                           StoreURL_savedURL(call))
       /\ calls' = [calls EXCEPT ![c].pc = "Save"]
       /\ UNCHANGED <<backend, file, last, stored, goroutines, completed>>
       /\ UNCHANGED dbVars
       /\ UNCHANGED idVars

\* StoreURL: `storager.Save(savedURL)` and `return false, nil`.
StoreURL_Save(c) ==
    LET call == calls[c]
    IN /\ call.pc = "Save"
       /\ Len(file) < MaxLog
       /\ file' = Save(file, StoreURL_savedURL(call))
       /\ calls' = [calls EXCEPT ![c].pc = "done"]
       /\ UNCHANGED <<backend, URLMap, last, stored, goroutines, completed>>
       /\ UNCHANGED dbVars
       /\ UNCHANGED idVars

\* DeleteByUserID: the first loop, between mu.Lock() and mu.Unlock(); the
\* call returns here when the engine has no file.
DeleteByUserID_mark(c) ==
    LET call == calls[c]
    IN /\ call.pc = "mark"
       /\ \E marked \in FileMarkDeleted(URLMap, call.shortURLs, call.userID) :
            /\ Cardinality(DOMAIN marked) <= MaxKeys
            /\ URLMap' = marked
            /\ calls' = [calls EXCEPT
                 ![c].marked =
                    {call.shortURLs[i] : i \in
                       {j \in 1..Len(call.shortURLs) :
                          findEntityByShortURL(URLMap, call.shortURLs[j])
                            # {}}},
                 ![c].pc = IF isWithFile THEN "collect" ELSE "done"]
       /\ UNCHANGED <<backend, file, last, stored, goroutines, completed>>
       /\ UNCHANGED dbVars
       /\ UNCHANGED idVars

\* DeleteByUserID: the second loop, between mu.RLock() and mu.RUnlock().
DeleteByUserID_collect(c) ==
    LET call == calls[c]
    IN /\ call.pc = "collect"
       /\ calls' = [calls EXCEPT
            ![c].filteredStore =
               FileDeletedToSave(URLMap, call.shortURLs, call.userID),
            ![c].pc = "SaveAll"]
       /\ UNCHANGED <<backend, URLMap, file, last, stored, goroutines,
                      completed>>
       /\ UNCHANGED dbVars
       /\ UNCHANGED idVars

\* DeleteByUserID: the loop of Save over filteredStore and `return nil`.
DeleteByUserID_SaveAll(c) ==
    LET call == calls[c]
    IN /\ call.pc = "SaveAll"
       /\ Len(file) + Len(call.filteredStore) <= MaxLog
       /\ file' = SaveAll(file, call.filteredStore)
       /\ calls' = [calls EXCEPT ![c].pc = "done"]
       /\ UNCHANGED <<backend, URLMap, last, stored, goroutines, completed>>
       /\ UNCHANGED dbVars
       /\ UNCHANGED idVars

\* FileStorage.GetLastUserID: the right-hand side `storager.lastUserID + 1`
\* reads the field; no lock is held.
GetLastUserID_read(c) ==
    /\ calls[c].pc = "read"
    /\ lastUserID < MaxUserID
    /\ calls' = [calls EXCEPT ![c].n = lastUserID, ![c].pc = "write"]
    /\ UNCHANGED <<backend, URLMap, file, last, stored, goroutines, completed>>
    /\ UNCHANGED dbVars
    /\ UNCHANGED idVars

\* FileStorage.GetLastUserID: the assignment to storager.lastUserID.
GetLastUserID_write(c) ==
    /\ calls[c].pc = "write"
    /\ lastUserID' = FileGetLastUserID(calls[c].n)
    /\ calls' = [calls EXCEPT ![c].pc = "return"]
    /\ UNCHANGED <<backend, URLMap, file, last, stored, goroutines, completed,
                   usedUserIDs, issued>>
    /\ UNCHANGED dbVars

\* FileStorage.GetLastUserID: `return storager.lastUserID, nil` reads the
\* field again; authMiddleware then calls SaveUserID with the value.
GetLastUserID_return(c) ==
    /\ calls[c].pc = "return"
    /\ issued' = Append(issued, lastUserID)
    /\ calls' = [calls EXCEPT ![c].n = lastUserID, ![c].pc = "SaveUserID"]
    /\ UNCHANGED <<backend, URLMap, file, last, stored, goroutines, completed,
                   lastUserID, usedUserIDs>>
    /\ UNCHANGED dbVars

\* DatabaseStorage.GetLastUserID: `storager.DB.IncrementID(ctx)`, one UPDATE
\* ... RETURNING statement, which the database runs atomically.
GetLastUserID_IncrementID(c) ==
    /\ calls[c].pc = "IncrementID"
    /\ last_user_id < MaxUserID
    /\ last_user_id' = IncrementID(last_user_id)
    /\ calls' = [calls EXCEPT ![c].n = IncrementID(last_user_id),
                              ![c].pc = "assign"]
    /\ UNCHANGED <<backend, URLMap, file, last, stored, goroutines, completed,
                   urls, urls_id_seq>>
    /\ UNCHANGED idVars

\* DatabaseStorage.GetLastUserID: `storager.lastUserID = lastUserID` and the
\* return of the local.
GetLastUserID_assign(c) ==
    /\ calls[c].pc = "assign"
    /\ lastUserID' = calls[c].n
    /\ issued' = Append(issued, calls[c].n)
    /\ calls' = [calls EXCEPT ![c].pc = "SaveUserID"]
    /\ UNCHANGED <<backend, URLMap, file, last, stored, goroutines, completed,
                   usedUserIDs>>
    /\ UNCHANGED dbVars

\* authMiddleware: SaveUserID(userID), the append between mu.Lock() and
\* mu.Unlock().
AuthMiddleware_SaveUserID(c) ==
    /\ calls[c].pc = "SaveUserID"
    /\ usedUserIDs' = SaveUserID(usedUserIDs, calls[c].n)
    /\ calls' = [calls EXCEPT ![c].pc = "done"]
    /\ UNCHANGED <<backend, URLMap, file, last, stored, goroutines, completed,
                   lastUserID, issued>>
    /\ UNCHANGED dbVars

\* Every caller makes one call; the steps of the calls interleave.
NextConcurrent ==
    \/ \E c \in Callers, u \in URLs, o \in Owners : BeginStoreURL(c, u, o)
    \/ \E c \in Callers, cs \in SeqsUpTo(Codes, MaxCodes), o \in Owners :
         BeginDeleteByUserID(c, cs, o)
    \/ \E c \in Callers : BeginGetLastUserID(c)
    \/ \E c \in Callers : StoreURL_GetURL(c)
    \/ \E c \in Callers : StoreURL_len(c)
    \/ \E c \in Callers : StoreURL_put(c)
    \/ \E c \in Callers : StoreURL_Save(c)
    \/ \E c \in Callers : DeleteByUserID_mark(c)
    \/ \E c \in Callers : DeleteByUserID_collect(c)
    \/ \E c \in Callers : DeleteByUserID_SaveAll(c)
    \/ \E c \in Callers : GetLastUserID_read(c)
    \/ \E c \in Callers : GetLastUserID_write(c)
    \/ \E c \in Callers : GetLastUserID_return(c)
    \/ \E c \in Callers : GetLastUserID_IncrementID(c)
    \/ \E c \in Callers : GetLastUserID_assign(c)
    \/ \E c \in Callers : AuthMiddleware_SaveUserID(c)

SpecConcurrent == Init /\ [][NextConcurrent]_vars

\* The lines of the log that hold a live record of the key.
LiveLines(shortURL, userID) ==
    {i \in 1..Len(file) :
       /\ Unmarshal(file[i]).ShortURL = shortURL
       /\ Unmarshal(file[i]).UserID = userID
       /\ ~Unmarshal(file[i]).Deleted}

\* Two callers have both run StoreURL to its end for the same key and both
\* took the key for absent.
BothStoredAsFirst(a, b) ==
    /\ a # b
    /\ calls[a].op = "StoreURL" /\ calls[b].op = "StoreURL"
    /\ calls[a].pc = "done" /\ calls[b].pc = "done"
    /\ calls[a].shortURLs = calls[b].shortURLs
    /\ calls[a].userID = calls[b].userID
    /\ ~calls[a].ok /\ ~calls[b].ok

\* C25: file/memory engine: two concurrent StoreURL calls for the same
\* (code, owner) can both observe the key as absent (the witness is such an
\* interleaving); whenever they do, neither call is turned into "already
\* existed" by the other's write: both return false, the index holds one
\* entry for the key, and the log holds two lines for it.
C25_BothObserveAbsent ==
    \A a \in Callers, b \in Callers :
      BothStoredAsFirst(a, b) =>
        /\ URLMapKey(calls[a].shortURLs[1], calls[a].userID) \in DOMAIN URLMap
        /\ Cardinality(LiveLines(calls[a].shortURLs[1], calls[a].userID)) = 2

\* The interleaving: both calls observed "not present", both returned
\* alreadyExisted = false, and the log has two lines for the key.
C25_Witness ==
    \E a \in Callers, b \in Callers :
      /\ BothStoredAsFirst(a, b)
      /\ Cardinality(LiveLines(calls[a].shortURLs[1], calls[a].userID)) = 2
      /\ Len(file) = 2

\* C28: no two GetLastUserID calls on the same engine return the same
\* value, also when they run concurrently, on the database engine and on the
\* file and memory engines.
C28_NoTwoCallsSameID ==
    \A i \in 1..Len(issued), j \in 1..Len(issued) :
      i # j => issued[i] # issued[j]

\* A DeleteByUserID call that has returned, with the keys whose entry its
\* first loop wrote.
DeletedKeys ==
    UNION {{URLMapKey(shortURL, calls[c].userID) :
              shortURL \in calls[c].marked} :
           c \in {d \in Callers : /\ calls[d].op = "DeleteByUserID"
                                  /\ calls[d].pc = "done"}}

\* C29: once DeleteByUserID has completed for a record, the record is never
\* deleted=false again, neither in the index nor in an engine rebuilt from
\* the log, whatever StoreURL and DeleteByUserID calls for the same key run
\* concurrently with it.
C29_DeletedStaysDeleted ==
    \A key \in DeletedKeys :
      /\ key \in DOMAIN URLMap /\ URLMap[key].Deleted
      /\ (isWithFile /\ key \in DOMAIN NewFileStorage(file).URLMap) =>
            NewFileStorage(file).URLMap[key].Deleted

\* C30: memory/file engines: a caller that is about to read the index,
\* the known-identity slice or the counter holds the read or the exclusive
\* lock, and one that is about to write them holds the exclusive lock; so no
\* two callers are at accesses of the same field, one of them a write, with
\* one of them holding no lock.
C30_AccessUnderLock ==
    isFileStorage =>
      /\ \A c \in Callers :
           LET t == Touches(calls[c].pc)
           IN t.field # "none" =>
                IF t.write THEN Holds(calls[c].pc) = "Lock"
                ELSE Holds(calls[c].pc) \in {"RLock", "Lock"}
      /\ \A a \in Callers, b \in Callers :
           (/\ a # b
            /\ Touches(calls[a].pc).field # "none"
            /\ Touches(calls[a].pc).field = Touches(calls[b].pc).field
            /\ Touches(calls[a].pc).write)
             => (Holds(calls[a].pc) # "none" /\ Holds(calls[b].pc) # "none")

(***************************************************************************)
(* Concurrent store calls.  DatabaseStorage.StoreURL and StoreURLBatch run *)
(* a SELECT per GetURL and then one INSERT transaction; every statement    *)
(* and the transaction are atomic in the database, and the statements of   *)
(* different callers interleave.                                           *)
(***************************************************************************)
BeginDBStoreURL(c, originalURL, userID) ==
    /\ backend = "db"
    /\ Begin(c, Call("DBGetURL", "StoreURL",
                     <<GenerateShortURL(originalURL)>>, originalURL, userID))

BeginDBStoreURLBatch(c, originalURLs, userID) ==
    /\ backend = "db"
    /\ originalURLs # <<>>
    /\ Begin(c, [Call("DBFilter", "StoreURLBatch", <<>>, "", userID)
                   EXCEPT !.forStore = BatchOf(originalURLs)])

\* DatabaseStorage.StoreURL: GetURL, and `return true, nil` when ok.
DBStoreURL_GetURL(c) ==
    LET call == calls[c]
        got == DBGetURL(urls, call.shortURLs[1], call.userID)
    IN /\ call.pc = "DBGetURL"
       /\ calls' = [calls EXCEPT ![c].ok = got.ok,
                                 ![c].pc = IF got.ok THEN "done" ELSE "Insert"]
       /\ UNCHANGED <<backend, URLMap, file, last, stored, goroutines,
                      completed>>
       /\ UNCHANGED dbVars
       /\ UNCHANGED idVars

\* DatabaseStorage.StoreURL: InsertSavedURLBatch of the one record and
\* `return false, err`.
DBStoreURL_Insert(c) ==
    LET call == calls[c]
        savedURL == SavedURL(0, call.shortURLs[1], call.originalURL,
                             call.userID, FALSE)
        ins == InsertSavedURLBatch(urls, urls_id_seq, <<savedURL>>,
                                   call.userID)
    IN /\ call.pc = "Insert"
       /\ call.op = "StoreURL"
       /\ urls_id_seq + 1 <= MaxSerial
       /\ urls' = ins.urls
       /\ urls_id_seq' = ins.urls_id_seq
       /\ calls' = [calls EXCEPT ![c].err = ins.err, ![c].pc = "done"]
       /\ UNCHANGED <<backend, URLMap, file, last, stored, goroutines,
                      completed, last_user_id>>
       /\ UNCHANGED idVars

\* DatabaseStorage.StoreURLBatch: one round of the loop, GetURL for the next
\* entry of forStore; after the last round `return nil` when filteredStore
\* is empty.
DBStoreURLBatch_GetURL(c) ==
    LET call == calls[c]
        savedURL == Head(call.forStore)
        got == DBGetURL(urls, savedURL.ShortURL, call.userID)
        filteredStore == IF got.ok THEN call.filteredStore
                         ELSE Append(call.filteredStore, savedURL)
    IN /\ call.pc = "DBFilter"
       /\ calls' = [calls EXCEPT
            ![c].forStore = Tail(call.forStore),
            ![c].filteredStore = filteredStore,
            ![c].pc = IF Tail(call.forStore) # <<>> THEN "DBFilter"
                      ELSE IF Len(filteredStore) # 0 THEN "Insert"
                      ELSE "done"]
       /\ UNCHANGED <<backend, URLMap, file, last, stored, goroutines,
                      completed>>
       /\ UNCHANGED dbVars
       /\ UNCHANGED idVars

\* DatabaseStorage.StoreURLBatch: InsertSavedURLBatch(filteredStore) and
\* `return err`.
DBStoreURLBatch_Insert(c) ==
    LET call == calls[c]
        ins == InsertSavedURLBatch(urls, urls_id_seq, call.filteredStore,
                                   call.userID)
    IN /\ call.pc = "Insert"
       /\ call.op = "StoreURLBatch"
       /\ urls_id_seq + Len(call.filteredStore) <= MaxSerial
       /\ urls' = ins.urls
       /\ urls_id_seq' = ins.urls_id_seq
       /\ calls' = [calls EXCEPT ![c].err = ins.err, ![c].pc = "done"]
       /\ UNCHANGED <<backend, URLMap, file, last, stored, goroutines,
                      completed, last_user_id>>
       /\ UNCHANGED idVars

\* The call has returned and the goroutine serves its next request.
Return(c) ==
    /\ calls[c].pc = "done"
    /\ calls' = [calls EXCEPT ![c] = Idle]
    /\ UNCHANGED <<backend, URLMap, file, last, stored, goroutines, completed>>
    /\ UNCHANGED dbVars
    /\ UNCHANGED idVars

\* Concurrent StoreURL and StoreURLBatch calls on the database engine and
\* concurrent StoreURL calls on the file and memory engines.
NextConcurrentStore ==
    \/ \E c \in Callers, u \in URLs, o \in Owners : BeginDBStoreURL(c, u, o)
    \/ \E c \in Callers, b \in SeqsUpTo(URLs, MaxBatch), o \in Owners :
         BeginDBStoreURLBatch(c, b, o)
    \/ \E c \in Callers : DBStoreURL_GetURL(c)
    \/ \E c \in Callers : DBStoreURL_Insert(c)
    \/ \E c \in Callers : DBStoreURLBatch_GetURL(c)
    \/ \E c \in Callers : DBStoreURLBatch_Insert(c)
    \/ \E c \in Callers, u \in URLs, o \in Owners : BeginStoreURL(c, u, o)
    \/ \E c \in Callers : StoreURL_GetURL(c)
    \/ \E c \in Callers : StoreURL_len(c)
    \/ \E c \in Callers : StoreURL_put(c)
    \/ \E c \in Callers : StoreURL_Save(c)
    \/ \E c \in Callers : Return(c)

SpecConcurrentStore == Init /\ [][NextConcurrentStore]_vars

\* C31: database engine: in every reachable state, also under concurrent
\* StoreURL and StoreURLBatch calls, the table holds at most one row for any
\* (originalURL, userID) pair.
C31_OneRowPerURLAndOwner ==
    backend = "db" =>
      \A i \in 1..Len(urls), j \in 1..Len(urls) :
        (urls[i].originalURL = urls[j].originalURL
           /\ urls[i].userID = urls[j].userID) => i = j

\* Two concurrent StoreURL calls both took the pair for absent and both ran
\* their INSERT: one was refused, and the table holds rows of two pairs.
C31_Witness ==
    /\ backend = "db"
    /\ Len(urls) >= 2
    /\ \E a \in Callers, b \in Callers :
         /\ a # b
         /\ calls[a].op = "StoreURL" /\ calls[b].op = "StoreURL"
         /\ calls[a].shortURLs = calls[b].shortURLs
         /\ calls[a].userID = calls[b].userID
         /\ calls[a].pc = "done" /\ calls[b].pc = "done"
         /\ ~calls[a].ok /\ ~calls[b].ok
         /\ calls[a].err /\ ~calls[b].err

\* C32: StoreURL on a key that is already stored reports it through
\* alreadyExisted = true and never through an error, in every interleaving
\* of concurrent StoreURL calls for the same key and on every engine: no
\* StoreURL call returns an error, and of two calls for one key that have
\* returned at least one has returned true.
C32_ExistingKeyIsNotAnError ==
    \A a \in Callers :
      (calls[a].op = "StoreURL" /\ calls[a].pc = "done") =>
        /\ ~calls[a].err
        /\ \A b \in Callers \ {a} :
             (/\ calls[b].op = "StoreURL" /\ calls[b].pc = "done"
              /\ calls[b].shortURLs = calls[a].shortURLs
              /\ calls[b].userID = calls[a].userID)
               => (calls[a].ok \/ calls[b].ok)

\* C33: file engine: ReadAllDataForUserID(owner) returns exactly one record
\* for each key (code, owner) of the index, with that key's current URL and
\* deleted flag, and nothing else; a record stored and then soft-deleted
\* appears once, not once per line of the log.
C33_ListIsTheIndex ==
    backend = "file" =>
      \A o \in Owners :
        LET list == ReadAllDataForUserID(o).list
        IN /\ Len(list) = Cardinality(KeysOf(o))
           /\ \A k \in KeysOf(o) :
                \E i \in 1..Len(list) :
                  /\ list[i].ShortURL = k[1]
                  /\ list[i].OriginalURL = URLMap[k].OriginalURL
                  /\ list[i].Deleted = URLMap[k].Deleted

\* C34: file engine: whenever no call is in flight and no write has failed,
\* a replay of the log (ReadAllData) gives exactly the index: the same
\* (code, owner) keys, each with the same URL and the same deleted flag,
\* after any sequence of StoreURL, StoreURLBatch and DeleteByUserID calls by
\* any owners.
C34_ReplayIsTheIndex ==
    backend = "file" =>
      LET replayed == NewFileStorage(file).URLMap
      IN /\ DOMAIN replayed = DOMAIN URLMap
         /\ \A k \in DOMAIN URLMap :
              /\ replayed[k].OriginalURL = URLMap[k].OriginalURL
              /\ replayed[k].Deleted = URLMap[k].Deleted

\* C36: when several owners hold a record for the same code,
\* GetURLForAnyUserID(code) returns the same record on every call made in
\* the same state: the call has one possible result, and never both a result
\* with deleted = true and one with deleted = false.
C36_AnyOwnerLookupDetermined ==
    \A c \in Codes : Cardinality(GetURLForAnyUserID(c)) = 1

\* grpcServer.GetURL: GetURLForAnyUserID; the ok result is dropped and the
\* Deleted flag is not looked at: the reply carries OriginalURL of the record
\* returned (of the zero record when nothing is found), with a nil error.
\* A reply is [Result, code], code "OK" for a nil error.
grpcGetURL(shortURL) ==
    {[Result |-> got.rec.OriginalURL, code |-> "OK"] :
        got \in GetURLForAnyUserID(shortURL)}

\* C37: the gRPC GetURL reports the same three outcomes as GetHandler: it
\* never returns the original URL of a record whose Deleted flag is true,
\* and for a code with no record it reports not-found (an error status)
\* rather than a successful empty reply.
C37_GrpcResolveOutcomes ==
    \A c \in Codes :
      /\ RecordsOf(c) = {} => \A reply \in grpcGetURL(c) : reply.code # "OK"
      /\ \A rec \in RecordsOf(c) :
           rec.Deleted =>
             \A reply \in grpcGetURL(c) :
               reply.code = "OK" => reply.Result # rec.OriginalURL

\* Requests without cookie served concurrently, each goroutine serving one
\* request after another: GetLastUserID and SaveUserID.
NextConcurrentIdentity ==
    \/ \E c \in Callers : BeginGetLastUserID(c)
    \/ \E c \in Callers : GetLastUserID_read(c)
    \/ \E c \in Callers : GetLastUserID_write(c)
    \/ \E c \in Callers : GetLastUserID_return(c)
    \/ \E c \in Callers : GetLastUserID_IncrementID(c)
    \/ \E c \in Callers : GetLastUserID_assign(c)
    \/ \E c \in Callers : AuthMiddleware_SaveUserID(c)
    \/ \E c \in Callers : Return(c)

SpecConcurrentIdentity == Init /\ [][NextConcurrentIdentity]_vars

\* C38: GetLastUserID never returns a value for which IsItCorrectUserID was
\* already true before the call, be it known through an earlier SaveUserID
\* or through the replay of persisted records.
C38_AllocatedWasNotKnown ==
    \A c \in Callers :
      (calls[c].op = "GetLastUserID" /\ calls[c].pc \in {"SaveUserID", "done"})
        => calls[c].n \notin calls[c].known

(***************************************************************************)
(* Two engines side by side.  In this specification a FileStorage over a   *)
(* file (URLMap, file) and a DatabaseStorage (urls, urls_id_seq) are both  *)
(* constructed empty and every call is made on both, one call at a time;   *)
(* last is what the file engine returned.                                  *)
(***************************************************************************)
BothStoreURL(shortURL, originalURL, userID) ==
    LET got == FileGetURL(URLMap, shortURL, userID)
        savedURL == SavedURL(Cardinality(DOMAIN URLMap), shortURL,
                             originalURL, userID, FALSE)
        row == SavedURL(0, shortURL, originalURL, userID, FALSE)
        ins == InsertSavedURLBatch(urls, urls_id_seq, <<row>>, userID)
    IN /\ backend = "file"
       /\ IF got.ok
          THEN UNCHANGED <<URLMap, file>>
          ELSE /\ Len(file) < MaxLog
               /\ Cardinality(DOMAIN URLMap) < MaxKeys
               /\ URLMap' = MapPut(URLMap, URLMapKey(shortURL, userID), savedURL)
               /\ file' = Save(file, savedURL)
       /\ IF DBGetURL(urls, shortURL, userID).ok
          THEN UNCHANGED <<urls, urls_id_seq>>
          ELSE /\ urls_id_seq + 1 <= MaxSerial
               /\ urls' = ins.urls
               /\ urls_id_seq' = ins.urls_id_seq
       /\ last' = StoreURLCall(got.ok, FALSE)
       /\ UNCHANGED <<backend, goVars, last_user_id, stored>>
       /\ UNCHANGED idVars

BothStoreURLBatch(originalURLs, userID) ==
    LET forStore == BatchOf(originalURLs)
        st == FileFilterBatch([URLMap |-> URLMap, filteredStore |-> <<>>],
                              forStore, userID)
        filteredStore == DBFilterBatch(urls, forStore, userID)
        ins == InsertSavedURLBatch(urls, urls_id_seq, filteredStore, userID)
    IN /\ backend = "file"
       /\ Cardinality(DOMAIN st.URLMap) <= MaxKeys
       /\ URLMap' = st.URLMap
       /\ IF Len(st.filteredStore) # 0
          THEN /\ Len(file) + Len(st.filteredStore) <= MaxLog
               /\ file' = SaveAll(file, st.filteredStore)
          ELSE UNCHANGED file
       /\ IF Len(filteredStore) # 0
          THEN /\ urls_id_seq + Len(filteredStore) <= MaxSerial
               /\ urls' = ins.urls
               /\ urls_id_seq' = ins.urls_id_seq
          ELSE UNCHANGED <<urls, urls_id_seq>>
       /\ last' = StoreURLBatchCall(FALSE)
       /\ UNCHANGED <<backend, goVars, last_user_id, stored>>
       /\ UNCHANGED idVars

BothDeleteByUserID(shortURLs, userID) ==
    /\ backend = "file"
    /\ \E marked \in FileMarkDeleted(URLMap, shortURLs, userID) :
         LET filteredStore == FileDeletedToSave(marked, shortURLs, userID)
         IN /\ Cardinality(DOMAIN marked) <= MaxKeys
            /\ URLMap' = marked
            /\ Len(file) + Len(filteredStore) <= MaxLog
            /\ file' = SaveAll(file, filteredStore)
    /\ urls' = UpdateDeletedSavedURLBatch(urls, shortURLs, userID)
    /\ last' = NoCall
    /\ UNCHANGED <<backend, goVars, urls_id_seq, last_user_id, stored>>
    /\ UNCHANGED idVars

NextBoth ==
    \/ \E u \in URLs, o \in Owners : BothStoreURL(GenerateShortURL(u), u, o)
    \/ \E b \in SeqsUpTo(URLs, MaxBatch), o \in Owners : BothStoreURLBatch(b, o)
    \/ \E cs \in SeqsUpTo(Codes, MaxCodes), o \in Owners :
         BothDeleteByUserID(cs, o)

SpecBoth == Init /\ [][NextBoth]_vars

\* What a caller sees of a record: the code, the URL and the deleted flag
\* (the UUID is an id the engine assigns).
Seen(savedURL) ==
    [ShortURL |-> savedURL.ShortURL, OriginalURL |-> savedURL.OriginalURL,
     Deleted |-> savedURL.Deleted]

\* The results of GetURLForAnyUserID and ReadAllDataForUserID on the file
\* engine and on the database engine.
FileAnswers ==
    [any |-> [c \in Codes |->
                {Seen(r) : r \in findEntityByShortURL(URLMap, c)}],
     all |-> [o \in Owners |->
                LET list == FileReadAllDataForUserID(file, o)
                IN [i \in 1..Len(list) |-> Seen(list[i])]]]

DBAnswers ==
    [any |-> [c \in Codes |->
                {Seen(ScanRow(r)) : r \in SelectSavedURLsForShortURL(urls, c)}],
     all |-> [o \in Owners |->
                LET list == SelectSavedURLsForUserID(urls, o)
                IN [i \in 1..Len(list) |-> Seen(ScanRow(list[i]))]]]

\* C35: for every sequence of StoreURL, StoreURLBatch, DeleteByUserID,
\* GetURLForAnyUserID and ReadAllDataForUserID calls made one at a time with
\* no backend failure, the file engine and the database engine return the
\* same results at each step: the same alreadyExisted, no error from one
\* where the other returns none, the same record found for a code and the
\* same list for an owner; also for a batch that holds one URL twice and
\* for a delete of a code the caller has not stored.
C35_SameResultsOnBothEngines ==
    /\ [](backend = "file" => FileAnswers = DBAnswers)
    /\ [][backend = "file" =>
            /\ \A u \in URLs, o \in Owners :
                 BothStoreURL(GenerateShortURL(u), u, o) =>
                   /\ FileGetURL(URLMap, GenerateShortURL(u), o).ok
                        = DBGetURL(urls, GenerateShortURL(u), o).ok
                   /\ DBGetURL(urls, GenerateShortURL(u), o).ok
                        \/ ~InsertSavedURLBatch(
                               urls, urls_id_seq,
                               <<SavedURL(0, GenerateShortURL(u), u, o, FALSE)>>,
                               o).err
            /\ \A b \in Batches, o \in Owners :
                 BothStoreURLBatch(b, o) =>
                   \/ DBFilterBatch(urls, BatchOf(b), o) = <<>>
                   \/ ~InsertSavedURLBatch(
                          urls, urls_id_seq,
                          DBFilterBatch(urls, BatchOf(b), o), o).err
         ]_vars

(***************************************************************************)
(* storager.mu, a sync.RWMutex.  Here a method of FileStorage is the       *)
(* sequence of calls it makes on the lock; what it does to the maps in     *)
(* between is left out, and a branch on data (the key is found or not, the *)
(* engine has a file or not) is a choice between sequences.  RLock waits   *)
(* while a writer holds the lock or has announced itself; Lock announces   *)
(* the writer, then waits for the readers to leave.                        *)
(***************************************************************************)
RLockSection == <<"RLock", "RUnlock">>

LockSection == <<"Lock", "Unlock">>

\* The lock calls of the loop of StoreURLBatch over n entries: GetURL for
\* each, and the map write for those not found.
RECURSIVE BatchLockOps(_)
BatchLockOps(n) ==
    IF n = 0 THEN {<<>>}
    ELSE {first \o rest : first \in {RLockSection, RLockSection \o LockSection},
                          rest \in BatchLockOps(n - 1)}

\* A faulty DeleteByUserID: findEntityByShortURL takes the read lock itself
\* while the first loop holds the exclusive lock.
LockOps_Nested(op) ==
    IF op = "DeleteByUserID"
    THEN {<<"Lock", "RLock", "RUnlock", "Unlock">>}
    ELSE {RLockSection}

\* The sequences of lock calls a method can make.
LockOps(op) ==
    CASE op = "StoreURL" -> {RLockSection, RLockSection \o LockSection}
      [] op = "StoreURLBatch" ->
           UNION {BatchLockOps(n) : n \in 0..MaxBatch}
      [] op = "GetURL" -> {RLockSection}
      [] op = "GetURLForAnyUserID" -> {RLockSection}
      [] op = "DeleteByUserID" -> {LockSection, LockSection \o RLockSection}
      [] op = "IsItCorrectUserID" -> {RLockSection}
      [] op = "SaveUserID" -> {LockSection}

LockedMethods ==
    {"StoreURL", "StoreURLBatch", "GetURL", "GetURLForAnyUserID",
     "DeleteByUserID", "IsItCorrectUserID", "SaveUserID"}

\* A caller enters a method of the file or memory engine.
BeginLocked(c, op) ==
    /\ isFileStorage
    /\ \E ops \in LockOps(op) :
         Begin(c, [Call("mu", op, <<>>, "", 0) EXCEPT !.ops = ops])

WriterHeldOrPending == \E d \in Callers : calls[d].wlock # "none"

\* Every step of the lock model changes calls only.
OnlyCalls ==
    /\ UNCHANGED <<backend, URLMap, file, last, stored, goroutines, completed>>
    /\ UNCHANGED dbVars
    /\ UNCHANGED idVars

\* mu.RLock(): granted when no writer holds the lock or waits for it.
mu_RLock(c) ==
    /\ calls[c].pc = "mu"
    /\ calls[c].ops # <<>> /\ Head(calls[c].ops) = "RLock"
    /\ ~WriterHeldOrPending
    /\ calls' = [calls EXCEPT ![c].rlocks = @ + 1, ![c].ops = Tail(@)]
    /\ OnlyCalls

mu_RUnlock(c) ==
    /\ calls[c].pc = "mu"
    /\ calls[c].ops # <<>> /\ Head(calls[c].ops) = "RUnlock"
    /\ calls' = [calls EXCEPT ![c].rlocks = @ - 1, ![c].ops = Tail(@)]
    /\ OnlyCalls

\* mu.Lock(), first half: the writer takes the writers' mutex and announces
\* itself; from here on no new reader is admitted.
mu_LockPending(c) ==
    /\ calls[c].pc = "mu"
    /\ calls[c].ops # <<>> /\ Head(calls[c].ops) = "Lock"
    /\ ~WriterHeldOrPending
    /\ calls' = [calls EXCEPT ![c].wlock = "pending"]
    /\ OnlyCalls

\* mu.Lock(), second half: the readers have left.
mu_Lock(c) ==
    /\ calls[c].pc = "mu"
    /\ calls[c].wlock = "pending"
    /\ \A d \in Callers : calls[d].rlocks = 0
    /\ calls' = [calls EXCEPT ![c].wlock = "held", ![c].ops = Tail(@)]
    /\ OnlyCalls

mu_Unlock(c) ==
    /\ calls[c].pc = "mu"
    /\ calls[c].ops # <<>> /\ Head(calls[c].ops) = "Unlock"
    /\ calls' = [calls EXCEPT ![c].wlock = "none", ![c].ops = Tail(@)]
    /\ OnlyCalls

\* The method returns.
mu_Return(c) ==
    /\ calls[c].pc = "mu"
    /\ calls[c].ops = <<>>
    /\ calls' = [calls EXCEPT ![c].pc = "done"]
    /\ OnlyCalls

\* What a caller that is inside a method does next.
Run(c) ==
    \/ mu_RLock(c)
    \/ mu_RUnlock(c)
    \/ mu_LockPending(c)
    \/ mu_Lock(c)
    \/ mu_Unlock(c)
    \/ mu_Return(c)

NextLock ==
    \/ \E c \in Callers, op \in LockedMethods : BeginLocked(c, op)
    \/ \E c \in Callers : mu_RLock(c)
    \/ \E c \in Callers : mu_RUnlock(c)
    \/ \E c \in Callers : mu_LockPending(c)
    \/ \E c \in Callers : mu_Lock(c)
    \/ \E c \in Callers : mu_Unlock(c)
    \/ \E c \in Callers : mu_Return(c)

\* Every caller makes one call.  A goroutine that can run is run, and a
\* goroutine blocked on the lock is woken once the lock can be granted.
SpecLock ==
    /\ Init
    /\ [][NextLock]_vars
    /\ \A c \in Callers : WF_vars(Run(c))

\* C39: every method of the memory/file engine releases the lock before it
\* returns and never asks for the lock while it holds it, so the calls of
\* any finite set of concurrent StoreURL, StoreURLBatch, GetURL,
\* GetURLForAnyUserID, DeleteByUserID, IsItCorrectUserID and SaveUserID
\* calls all return.
C39_LocksReleasedAndCallsReturn ==
    /\ [](\A c \in Callers :
            /\ calls[c].pc = "done" =>
                 (calls[c].rlocks = 0 /\ calls[c].wlock = "none")
            /\ (/\ calls[c].pc = "mu" /\ calls[c].ops # <<>>
                /\ Head(calls[c].ops) \in {"RLock", "Lock"}) =>
                 (calls[c].rlocks = 0 /\ calls[c].wlock \in {"none", "pending"}))
    /\ \A c \in Callers : (calls[c].pc = "mu") ~> (calls[c].pc = "done")

\* A writer has announced itself and waits for a reader that is inside its
\* section, while the other caller has its whole method still to run.
C39_Witness ==
    \E a \in Callers, b \in Callers :
      /\ calls[a].op = "DeleteByUserID" /\ calls[a].wlock = "pending"
      /\ calls[b].op = "StoreURLBatch" /\ calls[b].rlocks = 1
      /\ Len(calls[b].ops) > 2

==============================================================================
